---- MODULE Spec2Model ----
(***************************************************************************)
(* OpenSailingRC-BoatGPS: the broadcast transport (Communication), the fix *)
(* acquisition (GPS) and the rotating SD log (Storage), each driven by a   *)
(* harness that calls its public operations with arbitrary inputs, and the *)
(* orchestrator (setup and loop of main.cpp) that drives the three.        *)
(***************************************************************************)
EXTENDS Integers, Sequences, FiniteSets, TLC

(***************************************************************************)
(* Bounds of the model                                                     *)
(***************************************************************************)
\* number of broadcastGPSData calls explored in one session
MaxCalls == 3
\* number of esp_now_send calls counted inside one broadcastGPSData call
MaxSends == 258
\* largest satellite count the decoder reports
MaxSats == 5
\* number of elapsed-time steps the age of the decoder's location is followed for
MaxAgeSteps == 3
\* number of writeGPSData calls explored in one session, failures included
MaxWrites == 5
\* number of writeGPSData calls explored in a session without failures
MaxGoodWrites == 7
\* length of the longest identifier handed to broadcastGPSData
MaxNameLen == 19
\* number of send-completion warnings followed in one session
MaxWarnings == 2
\* number of broadcast ticks of loop() explored in one session
MaxTicks == 2
\* Storage::MAX_RECORDS_PER_FILE, scaled down from 10000 records
MAX_RECORDS_PER_FILE == 3
\* Storage::MAX_FILE_SIZE, scaled down from 10 MB, in the unit of JsonLens
MAX_FILE_SIZE == 4

(***************************************************************************)
(* Program constants                                                       *)
(***************************************************************************)
\* uint8_t attempt / uint8_t retries
UINT8_MOD == 256
\* uint32_t values are kept as two 16-bit words [hi, lo] (value = hi * 2^16 + lo),
\* so that the arithmetic modulo 2^32 of the counter is exact
WORD_MOD == 65536
\* the default (2), the orchestrator's value (4), and the ends of uint8_t
RetryValues == {0, 1, 2, 4, 255}
\* TinyGPSDate::year(): the two digits of the sentence + 2000
DECODER_YEAR_BASE == 2000
\* seconds in a day
SECS_PER_DAY == 86400
\* uint8_t macAddress[6]
MAC_LEN == 6
\* char macStr[13] in createLogFile
MAC_HEX_SIZE == 13
\* GPS::MAX_AGE_MS
MAX_AGE_MS == 2000
\* currentData.satellites >= 4
MIN_SATELLITES == 4
\* float: 23 bits of fraction, exponent bias 127
FLOAT_FRAC_BITS == 23
FLOAT_BIAS == 127
\* granularity of the modelled millis() clock, in ms
AGE_STEP_MS == 1000
\* createLogFile: while (SD.exists(filename) && suffix < 100)
MAX_SUFFIX == 100
\* calendar timestamps (to the second) a fix can carry
Stamps == {1, 2}
\* sizes a serialized record can have
JsonLens == {1, 2}
\* the invalid File handle
NoFile == <<>>
\* char macStr[18]
MAC_STR_SIZE == 18
\* const uint32_t BROADCAST_INTERVAL = 1000
BROADCAST_INTERVAL == 1000
\* comm.broadcastGPSData(data, boatName, 4)
LOOP_RETRIES == 4
\* the time one loop() iteration is followed for: half an interval, or a whole one
LoopElapsed == {BROADCAST_INTERVAL \div 2, BROADCAST_INTERVAL}
\* satellite counts the decoder reports to the orchestrator: just below and at the minimum
LoopSats == {MIN_SATELLITES - 1, MIN_SATELLITES}

VARIABLES
    \* ---- Communication ----
    sequenceCounter,   \* Communication::sequenceCounter
    commPc,            \* position inside broadcastGPSData
    packet,            \* the GPSBroadcastPacket of the call in progress
    retries,           \* parameter of the call in progress
    attempt,           \* loop variable (uint8_t)
    success,           \* local variable success
    lastResult,        \* value returned by the last completed call
    calls,             \* history: broadcastGPSData calls since construction
    sends,             \* history: esp_now_send calls made by the current call
    accepted,          \* history: esp_now_send calls of the current call that returned ESP_OK
    backoffs,          \* history: delay(10) waits made by the current call
    diag,              \* history: diagnostic lines the current call printed on Serial
    warnings,          \* history: warnings printed by handleSendCallback since construction
    failedCalls        \* history: broadcastGPSData calls that have returned false (modulo 2^32)

    ,
    \* ---- GPS ----
    currentData,       \* GPS::currentData (GPSData)
    gps,               \* GPS::gps, the TinyGPSPlus decoder, as left by the last update()
    updates,           \* history: was the Fix refreshed by the last update() call
    clock,             \* GPS::gps.date and gps.time, as the decoder holds them
    fixTime,           \* GPS::currentData: timestamp and year .. second
    \* ---- Storage ----
    sdAvailable,       \* Storage::sdAvailable
    fileCreated,       \* Storage::fileCreated
    currentFileSize,   \* Storage::currentFileSize
    recordCount,       \* Storage::recordCount
    currentFileName,   \* Storage::currentFileName
    logFile,           \* Storage::logFile: the name of the open file, or NoFile
    sd,                \* the files opened in this session: name -> [data, synced]
    mount,             \* history: outcome of begin ("none" before it was called)
    mountAttempts,     \* history: SD.begin calls
    writeCalls,        \* history: writeGPSData calls
    validCalls,        \* history: writeGPSData calls with data.valid
    created,           \* history: names opened by createLogFile, in order
    ioFailed,          \* history: a mount, open or write has failed
    sizeReached,       \* history: currentFileSize has reached MAX_FILE_SIZE
    preexisting,       \* the medium before the session: stamp -> number of names taken
    macAddressStr,     \* Storage::macAddressStr
    nameMacs,          \* history: the MAC component of each name in created, in order
    \* ---- orchestrator (main.cpp) ----
    loopPc,            \* position inside setup() / loop()
    loopData,          \* loop(): GPSData data, the snapshot of the iteration
    millis,            \* the millis() clock (uint32_t), as loop() read it last
    lastBroadcast,     \* lastBroadcast (uint32_t)
    validPacketCount,  \* validPacketCount
    invalidPacketCount,\* invalidPacketCount
    seqNum,            \* loop(): uint32_t seqNum
    ticks,             \* history: broadcast ticks (iterations that found the interval elapsed)
    refSeq,            \* history: sequence counter of the same pipeline run without storage
    refData,           \* history: fix that pipeline broadcast last
    led,               \* the colour the status LED shows
    boatName,          \* String boatName
    prefName,          \* the string stored under "boat_name" in the preferences
    mac,               \* Communication::localMAC, the 6 bytes of the MAC address
    espNow,            \* the ESP-NOW driver: "down", "initialised" or "ready" (peer added)
    \* ---- the packet of one broadcastGPSData call, byte by byte ----
    pktPc,             \* position inside the preparation of the packet
    args,              \* the arguments of the call, the counter, and what the stack held
    packetBytes,       \* the memory of the local GPSBroadcastPacket packet
    wire               \* the buffer and length handed to esp_now_send

commVars == <<sequenceCounter, commPc, packet, retries, attempt, success,
              lastResult, calls, sends, accepted, backoffs, diag, warnings, failedCalls>>

gpsVars == <<currentData, gps, updates, clock, fixTime>>

stVars == <<sdAvailable, fileCreated, currentFileSize, recordCount,
            currentFileName, logFile, sd, mount, mountAttempts, writeCalls,
            validCalls, created, ioFailed, sizeReached, preexisting,
            macAddressStr, nameMacs>>

loopVars == <<loopPc, loopData, millis, lastBroadcast, validPacketCount,
              invalidPacketCount, seqNum, ticks, refSeq, refData,
              led, boatName, prefName, mac, espNow>>

pktVars == <<pktPc, args, packetBytes, wire>>

vars == <<commVars, gpsVars, stVars, loopVars, pktVars>>

(***************************************************************************)
(* Communication                                                            *)
(***************************************************************************)
\* the uint32_t with value n, for n < 2^31
U32(n) == [hi |-> n \div WORD_MOD, lo |-> n % WORD_MOD]

\* a + n as uint32_t, for 0 <= n < 2^16
U32Add(a, n) ==
    [hi |-> (a.hi + (a.lo + n) \div WORD_MOD) % WORD_MOD, lo |-> (a.lo + n) % WORD_MOD]

\* a - b as uint32_t (modulo 2^32)
U32Sub(a, b) ==
    [hi |-> (a.hi - b.hi - (IF a.lo < b.lo THEN 1 ELSE 0) + WORD_MOD) % WORD_MOD,
     lo |-> (a.lo - b.lo + WORD_MOD) % WORD_MOD]

\* a >= n for a uint32_t a and 0 <= n < 2^16
U32AtLeast(a, n) == a.hi > 0 \/ a.lo >= n

\* Serial before the call prints anything: the success lines, the failure
\* lines, the exhaustion lines, and the numbers the last lines carried
NoLines == [sent |-> 0, failed |-> 0, exhausted |-> 0, failedNo |-> 0, retryNo |-> 0, afterNo |-> 0]

\* Communication::Communication() : sequenceCounter(0)
InitComm ==
    /\ sequenceCounter = U32(0)
    /\ commPc = "idle"
    /\ packet = [messageType |-> 0, sequenceNumber |-> U32(0)]
    /\ retries = 0
    /\ attempt = 0
    /\ success = FALSE
    /\ lastResult = "none"
    /\ calls = 0
    /\ sends = 0
    /\ accepted = 0
    /\ backoffs = 0
    /\ diag = NoLines
    /\ warnings = 0
    /\ failedCalls = U32(0)

\* a Communication object that has issued the sequence number c (c > 0) in an
\* earlier call, all its calls so far having returned false: the counter is c
\* and the packet of that call carried c. The other history counters follow
\* the calls from here on.
InitCommAfter(c) ==
    /\ sequenceCounter = c
    /\ commPc = "idle"
    /\ packet = [messageType |-> 1, sequenceNumber |-> c]
    /\ retries = 0
    /\ attempt = 0
    /\ success = FALSE
    /\ lastResult = "none"
    /\ calls = 0
    /\ sends = 0
    /\ accepted = 0
    /\ backoffs = 0
    /\ diag = NoLines
    /\ warnings = 0
    /\ failedCalls = c

\* a variant of NextSequence in which only the low 16 bits count
NextSequence_LowWord(c) ==
    [hi |-> c.hi, lo |-> (c.lo + 1) % WORD_MOD]

\* sequenceCounter++ (uint32_t)
NextSequence(c) ==
    IF c.lo = WORD_MOD - 1
    THEN [hi |-> (c.hi + 1) % WORD_MOD, lo |-> 0]
    ELSE [hi |-> c.hi, lo |-> c.lo + 1]

\* broadcastGPSData entry: counter increment, packet preparation, loop init
BroadcastEnter(r) ==
    /\ commPc = "idle"
    /\ calls < MaxCalls
    /\ sequenceCounter' = NextSequence(sequenceCounter)
    /\ packet' = [messageType |-> 1, sequenceNumber |-> sequenceCounter']
    /\ retries' = r
    /\ success' = FALSE
    /\ attempt' = 0
    /\ calls' = calls + 1
    /\ sends' = 0
    /\ accepted' = 0
    /\ backoffs' = 0
    /\ diag' = NoLines
    /\ commPc' = "loop"
    /\ UNCHANGED <<lastResult, warnings, failedCalls>>

\* the for-loop condition: attempt <= retries
LoopCond(a, r) == a <= r

\* attempt++ (uint8_t)
NextAttempt(a) == (a + 1) % UINT8_MOD

\* Serial.printf("-> Broadcast: ...") / ("... [retry %d]", attempt): one line
SuccessLine(d, a) == [d EXCEPT !.sent = @ + 1, !.retryNo = a]

\* Serial.printf("Broadcast attempt %d failed (error: %d)", attempt + 1, result): one line
FailureLine(d, a) == [d EXCEPT !.failed = @ + 1, !.failedNo = a + 1]

\* Serial.printf("Broadcast failed after %d attempts", attempt): one line
ExhaustionLine(d, a) == [d EXCEPT !.exhausted = @ + 1, !.afterNo = a]

\* if (attempt < retries) delay(10);
Backoff(b, a, r) == IF a < r THEN b + 1 ELSE b

\* a variant of SendAttempt that numbers every retry
SendAttempt_CountsRetries(ok) ==
    /\ commPc = "loop"
    /\ LoopCond(attempt, retries)
    /\ sends < MaxSends
    /\ sends' = sends + 1
    /\ IF ok
       THEN /\ success' = TRUE
            /\ accepted' = accepted + 1
            /\ commPc' = "return"
            /\ diag' = SuccessLine(diag, attempt)
            /\ UNCHANGED <<attempt, sequenceCounter, packet, backoffs>>
       ELSE /\ attempt' = NextAttempt(attempt)
            /\ sequenceCounter' = NextSequence(sequenceCounter)
            /\ packet' = [packet EXCEPT !.sequenceNumber = sequenceCounter']
            /\ diag' = FailureLine(diag, attempt)
            /\ backoffs' = Backoff(backoffs, attempt, retries)
            /\ UNCHANGED <<success, accepted, commPc>>
    /\ UNCHANGED <<retries, lastResult, calls, warnings, failedCalls>>

\* a variant of SendAttempt without the break after an accepted attempt
SendAttempt_NoBreak(ok) ==
    /\ commPc = "loop"
    /\ LoopCond(attempt, retries)
    /\ sends < MaxSends
    /\ sends' = sends + 1
    /\ IF ok
       THEN /\ success' = TRUE
            /\ accepted' = accepted + 1
            /\ diag' = SuccessLine(diag, attempt)
            /\ attempt' = NextAttempt(attempt)
            /\ UNCHANGED <<commPc, backoffs>>
       ELSE /\ diag' = FailureLine(diag, attempt)
            /\ backoffs' = Backoff(backoffs, attempt, retries)
            /\ attempt' = NextAttempt(attempt)
            /\ UNCHANGED <<success, accepted, commPc>>
    /\ UNCHANGED <<sequenceCounter, packet, retries, lastResult, calls, warnings, failedCalls>>

\* one iteration of the retry loop: esp_now_send returns ESP_OK (ok) or an error
SendAttempt(ok) ==
    /\ commPc = "loop"
    /\ LoopCond(attempt, retries)
    /\ sends < MaxSends
    /\ sends' = sends + 1
    /\ IF ok
       THEN /\ success' = TRUE
            /\ accepted' = accepted + 1
            /\ diag' = SuccessLine(diag, attempt)
            /\ commPc' = "return"        \* break
            /\ UNCHANGED <<attempt, backoffs>>
       ELSE /\ diag' = FailureLine(diag, attempt)
            /\ backoffs' = Backoff(backoffs, attempt, retries)
            /\ attempt' = NextAttempt(attempt)
            /\ UNCHANGED <<success, accepted, commPc>>
    /\ UNCHANGED <<sequenceCounter, packet, retries, lastResult, calls, warnings, failedCalls>>

\* the loop condition fails: retries exhausted
LoopExit ==
    /\ commPc = "loop"
    /\ ~LoopCond(attempt, retries)
    /\ commPc' = "return"
    /\ diag' = IF success THEN diag ELSE ExhaustionLine(diag, attempt)
    /\ UNCHANGED <<sequenceCounter, packet, retries, attempt, success,
                   lastResult, calls, sends, accepted, backoffs, warnings, failedCalls>>

\* return success;
BroadcastReturn ==
    /\ commPc = "return"
    /\ lastResult' = success
    /\ failedCalls' = IF success THEN failedCalls ELSE NextSequence(failedCalls)
    /\ commPc' = "idle"
    /\ UNCHANGED <<sequenceCounter, packet, retries, attempt, success,
                   calls, sends, accepted, backoffs, diag, warnings>>

\* uint32_t getSequenceNumber() const
getSequenceNumber == sequenceCounter

NextComm ==
    \/ \E r \in RetryValues : BroadcastEnter(r) /\ UNCHANGED <<gpsVars, stVars, loopVars, pktVars>>
    \/ \E ok \in BOOLEAN : SendAttempt(ok) /\ UNCHANGED <<gpsVars, stVars, loopVars, pktVars>>
    \/ LoopExit /\ UNCHANGED <<gpsVars, stVars, loopVars, pktVars>>
    \/ BroadcastReturn /\ UNCHANGED <<gpsVars, stVars, loopVars, pktVars>>

\* a send that esp_now_send accepted, in the call in progress or in the call
\* that returned last, has completed
SendCompleted ==
    \/ accepted > 0
    \/ /\ calls > (IF commPc = "idle" THEN 0 ELSE 1)
       /\ lastResult = TRUE

\* a variant of handleSendCallback in which a reported failure withdraws the
\* acceptance of the call in progress
handleSendCallback_Withdraws(ok) ==
    /\ SendCompleted
    /\ warnings < MaxWarnings
    /\ warnings' = IF ok THEN warnings ELSE warnings + 1
    /\ success' = IF ok THEN success ELSE FALSE
    /\ UNCHANGED <<sequenceCounter, commPc, packet, retries, attempt,
                   lastResult, calls, sends, accepted, backoffs, diag, failedCalls>>

\* Communication::onDataSent -> handleSendCallback(status), run by the WiFi
\* task once a send that esp_now_send accepted has completed: a warning on
\* Serial when status != ESP_NOW_SEND_SUCCESS (ok = FALSE), nothing otherwise
handleSendCallback(ok) ==
    /\ SendCompleted
    /\ warnings < MaxWarnings
    /\ warnings' = IF ok THEN warnings ELSE warnings + 1
    /\ UNCHANGED <<sequenceCounter, commPc, packet, retries, attempt, success,
                   lastResult, calls, sends, accepted, backoffs, diag, failedCalls>>

\* the broadcast harness with the send-completion callback arriving at any point
NextCallback ==
    \/ NextComm
    \/ \E ok \in BOOLEAN : handleSendCallback(ok) /\ UNCHANGED <<gpsVars, stVars, loopVars, pktVars>>

(***************************************************************************)
(* GPS                                                                     *)
(***************************************************************************)
\* TinyGPSPlus before any sentence: date and time not valid, their raw values
\* 0, which year() reads as 2000 and the other accessors as 0
NoClock ==
    [dateValid |-> FALSE, year |-> DECODER_YEAR_BASE, month |-> 0, day |-> 0,
     timeValid |-> FALSE, hour |-> 0, minute |-> 0, second |-> 0]

\* the date and time the sentences of reading t carry: the last second of
\* 2025 for t = 1, the seconds of 2026 that follow for t = 2, 3, ...
CalendarOf(t) ==
    IF t = 1
    THEN [year |-> 2025, month |-> 12, day |-> 31, hour |-> 23, minute |-> 59, second |-> 59]
    ELSE [year |-> 2026, month |-> 1, day |-> 1, hour |-> 0, minute |-> 0, second |-> t - 2]

\* the decoder's date and time after a committed sentence of reading t: the
\* time is in every sentence that carries a position, the date only in some
\* (withDate)
FeedClock(c, commit, t, withDate) ==
    LET cal == CalendarOf(t) IN
    IF ~commit THEN c
    ELSE [dateValid |-> c.dateValid \/ withDate,
          year |-> IF withDate THEN cal.year ELSE c.year,
          month |-> IF withDate THEN cal.month ELSE c.month,
          day |-> IF withDate THEN cal.day ELSE c.day,
          timeValid |-> TRUE,
          hour |-> cal.hour, minute |-> cal.minute, second |-> cal.second]

\* days from 1970-01-01 to the day d of month m (1..12) of year y
DaysFromCivil(y, m, d) ==
    LET y1  == IF m <= 2 THEN y - 1 ELSE y
        era == y1 \div 400
        yoe == y1 - era * 400
        mp  == (m + 9) % 12
        doy == (153 * mp + 2) \div 5 + d - 1
        doe == yoe * 365 + yoe \div 4 - yoe \div 100 + doy
    IN  era * 146097 + doe - 719468

\* mktime(&tm) for tm_year = year - 1900, tm_mon = month - 1, tm_mday = day,
\* ..., in UTC: the month is brought into range first, days and seconds
\* outside their range carry over. The time_t is kept as whole days and the
\* seconds of the day.
Mktime(year, month, day, hour, minute, second) ==
    LET mon  == month - 1
        y    == year + (mon \div 12)
        m    == (mon % 12) + 1
        secs == hour * 3600 + minute * 60 + second
    IN  [days |-> DaysFromCivil(y, m, day) + (secs \div SECS_PER_DAY),
         secs |-> secs % SECS_PER_DAY]

\* a variant of RefreshTime that copies the calendar fields whether or not
\* the decoder holds them valid
RefreshTime_CopiesAll(ft, c) ==
    [timestamp |-> Mktime(c.year, c.month, c.day, c.hour, c.minute, c.second),
     year |-> c.year, month |-> c.month, day |-> c.day,
     hour |-> c.hour, minute |-> c.minute, second |-> c.second]

\* the time part of the refresh: currentData.timestamp = mktime(...) from the
\* decoder's accessors, then year .. second copied if date / time isValid()
RefreshTime(ft, c) ==
    [timestamp |-> Mktime(c.year, c.month, c.day, c.hour, c.minute, c.second),
     year |-> IF c.dateValid THEN c.year ELSE ft.year,
     month |-> IF c.dateValid THEN c.month ELSE ft.month,
     day |-> IF c.dateValid THEN c.day ELSE ft.day,
     hour |-> IF c.timeValid THEN c.hour ELSE ft.hour,
     minute |-> IF c.timeValid THEN c.minute ELSE ft.minute,
     second |-> IF c.timeValid THEN c.second ELSE ft.second]

\* GPS::GPS(): valid = false, timestamp = 0; the object is a global, so the
\* other fields start zeroed. The decoder has no location yet.
InitGPS ==
    /\ currentData = [valid |-> FALSE, timestamp |-> 0, satellites |-> 0, age |-> 0]
    /\ gps = [updated |-> FALSE, valid |-> FALSE, satellites |-> 0,
              age |-> MaxAgeSteps * AGE_STEP_MS, time |-> 0]
    /\ updates = "none"
    /\ clock = NoClock
    /\ fixTime = [timestamp |-> [days |-> 0, secs |-> 0], year |-> 0, month |-> 0,
                  day |-> 0, hour |-> 0, minute |-> 0, second |-> 0]

\* The decoder after the feed loop "while (available) gps.encode(read)":
\* commit    a sentence with a fix was decoded: location valid, updated, age 0
\* sats      the satellite count of the last decoded sentence
\* dt        the time that has passed since the previous update() call
\* t         the epoch of the decoded date/time
\* Without a commit the location keeps its validity and grows older; the
\* updated flag was cleared when the previous update() read the location.
Feed(g, commit, sats, dt, t) ==
    IF commit
    THEN [updated |-> TRUE, valid |-> TRUE, satellites |-> sats, age |-> 0, time |-> t]
    ELSE [updated |-> FALSE, valid |-> g.valid, satellites |-> sats,
          age |-> IF g.age + dt > MaxAgeSteps * AGE_STEP_MS
                  THEN MaxAgeSteps * AGE_STEP_MS ELSE g.age + dt,
          time |-> g.time]

\* a variant of Validate that does not look at the satellite count
Validate_AnySatellites(g, sats) == g.valid

\* the validation at the end of the refresh
Validate(g, sats) == g.valid /\ (sats >= MIN_SATELLITES)

\* a variant of Refresh that does not wait for an updated location
Refresh_Unconditional(cd, g) ==
    [valid |-> Validate(g, g.satellites), timestamp |-> g.time,
     satellites |-> g.satellites, age |-> g.age]

\* the Fix after "if (gps.location.isUpdated()) { ... }"
Refresh(cd, g) ==
    IF g.updated
    THEN [valid |-> Validate(g, g.satellites), timestamp |-> g.time,
          satellites |-> g.satellites, age |-> g.age]
    ELSE cd

\* GPS::update(), fed sentences with or without a date
GPSUpdateOn(commit, sats, dt, t, withDate) ==
    LET g == Feed(gps, commit, sats, dt, t) IN
    /\ currentData' = Refresh(currentData, g)
    /\ clock' = FeedClock(clock, commit, t, withDate)
    /\ fixTime' = IF g.updated THEN RefreshTime(fixTime, clock') ELSE fixTime
    \* reading lat()/lng() clears the decoder's updated flag
    /\ gps' = [g EXCEPT !.updated = FALSE]
    /\ updates' = IF g.updated THEN "refreshed" ELSE "kept"

\* GPS::update(), fed sentences that carry the date
GPSUpdate(commit, sats, dt, t) == GPSUpdateOn(commit, sats, dt, t, TRUE)

\* bool GPS::isValid()
isValid == currentData.valid

\* GPSData GPS::getData()
getData == currentData

\* uint8_t GPS::getSatellites()
getSatellites == gps.satellites

NextGPS ==
    \E commit \in BOOLEAN, sats \in 0..MaxSats, dt \in {0, AGE_STEP_MS}, t \in {1, 2} :
        GPSUpdate(commit, sats, dt, t) /\ UNCHANGED <<commVars, stVars, loopVars, pktVars>>

\* update() calls on a receiver whose sentences may come without a date
NextClock ==
    \E commit \in BOOLEAN, sats \in 0..MaxSats, dt \in {0, AGE_STEP_MS}, t \in Stamps,
       withDate \in BOOLEAN :
        GPSUpdateOn(commit, sats, dt, t, withDate)
            /\ UNCHANGED <<commVars, stVars, loopVars, pktVars>>

(***************************************************************************)
(* Storage                                                                 *)
(***************************************************************************)
\* the character codes of '0', 'A' and ':'
ASCII_0 == 48
ASCII_A == 65
ASCII_COLON == 58

\* one digit of "%02X"
HexDigit(d) == IF d < 10 THEN ASCII_0 + d ELSE ASCII_A + (d - 10)

\* the character code of 'a'
ASCII_LOWER_A == 97

\* the value of the character c as a digit of base 16, or -1
DigitValue(c) ==
    IF c >= ASCII_0 /\ c < ASCII_0 + 10 THEN c - ASCII_0
    ELSE IF c >= ASCII_A /\ c < ASCII_A + 6 THEN c - ASCII_A + 10
    ELSE IF c >= ASCII_LOWER_A /\ c < ASCII_LOWER_A + 6 THEN c - ASCII_LOWER_A + 10
    ELSE -1

\* strtol(str, NULL, base) for base 10 or 16 on a string without sign or
\* blanks: the digits of the base up to the first other character
RECURSIVE StrtolFrom(_, _, _)
StrtolFrom(str, base, acc) ==
    IF str = <<>> \/ DigitValue(Head(str)) < 0 \/ DigitValue(Head(str)) >= base
    THEN acc
    ELSE StrtolFrom(Tail(str), base, acc * base + DigitValue(Head(str)))

Strtol(str, base) == StrtolFrom(str, base, 0)

\* String::operator[]: the character at index i (from 0), 0 outside the string
CharAt(str, i) == IF i < Len(str) THEN str[i + 1] ELSE 0

\* char hexByte[3] = {str[i*2], str[i*2+1], '\0'} as a C string: the
\* characters before the first NUL
HexByte(str, i) ==
    IF CharAt(str, i * 2) = 0 THEN <<>>
    ELSE IF CharAt(str, i * 2 + 1) = 0 THEN <<CharAt(str, i * 2)>>
    ELSE <<CharAt(str, i * 2), CharAt(str, i * 2 + 1)>>

\* a variant of DecodeMac that reads the pairs as decimal numbers
DecodeMac_Decimal(str) ==
    [i \in 1..MAC_LEN |-> Strtol(HexByte(str, i - 1), 10) % UINT8_MOD]

\* rotateFile: dummyMac[i] = (uint8_t)strtol(hexByte, NULL, 16) for i < 6
DecodeMac(str) ==
    [i \in 1..MAC_LEN |-> Strtol(HexByte(str, i - 1), 16) % UINT8_MOD]

\* createLogFile: snprintf(macStr, sizeof(macStr), "%02X%02X%02X%02X%02X%02X",
\* macAddress[0], ..., macAddress[5]) into char macStr[13]
EncodeMac(m) ==
    LET Group(i) == <<HexDigit(m[i] \div 16), HexDigit(m[i] % 16)>>
        full == Group(1) \o Group(2) \o Group(3) \o Group(4) \o Group(5) \o Group(6)
    IN  SubSeq(full, 1, IF Len(full) < MAC_HEX_SIZE - 1 THEN Len(full) ELSE MAC_HEX_SIZE - 1)

\* A file name is <<stamp, suffix>>: suffix 0 is
\* /gps_MAC_YYYY-MM-DD_HH-MM-SS.json, suffix k > 0 is ..._k.json
FileName(stamp, suffix) == <<stamp, suffix>>

\* the medium that holds, from earlier sessions, the unsuffixed name and the
\* suffixes 1..n-1 of the stamp, and no name of another stamp
Colliding(stamp, n) == [t \in Stamps |-> IF t = stamp THEN n ELSE 0]

\* the names an earlier session left on the medium
OldNames(pre) == {f \in Stamps \X (0..(MAX_SUFFIX - 1)) : f[2] < pre[f[1]]}

\* SD.exists(filename)
Exists(files, filename) ==
    filename \in DOMAIN files \/ filename[2] < preexisting[filename[1]]

\* Storage::Storage(), and (m = "disabled") the same object after
\* begin(false), which changes no member
InitStorageAs(medium, m) ==
    /\ sdAvailable = FALSE
    /\ fileCreated = FALSE
    /\ currentFileSize = 0
    /\ recordCount = 0
    /\ currentFileName = NoFile
    /\ logFile = NoFile
    /\ sd = <<>>
    /\ mount = m
    /\ mountAttempts = 0
    /\ writeCalls = 0
    /\ validCalls = 0
    /\ created = <<>>
    /\ ioFailed = FALSE
    /\ sizeReached = FALSE
    /\ preexisting = medium
    /\ macAddressStr = <<>>
    /\ nameMacs = <<>>

\* Storage::Storage()
InitStorageOn(medium) == InitStorageAs(medium, "none")

\* the Storage object as one value, for the sequential composition of its methods
StorageState ==
    [sdAvailable |-> sdAvailable, fileCreated |-> fileCreated,
     currentFileSize |-> currentFileSize, recordCount |-> recordCount,
     currentFileName |-> currentFileName, logFile |-> logFile, sd |-> sd,
     created |-> created, ioFailed |-> ioFailed,
     macAddressStr |-> macAddressStr, nameMacs |-> nameMacs, ok |-> TRUE]

RECURSIVE SumLen(_)
SumLen(recs) == IF recs = <<>> THEN 0 ELSE Head(recs).len + SumLen(Tail(recs))

\* File::size()
FileSize(s) == IF s.logFile = NoFile THEN 0 ELSE SumLen(s.sd[s.logFile].data)

\* File::flush(): everything written so far reaches the medium
Flush(s) ==
    IF s.logFile = NoFile THEN s
    ELSE [s EXCEPT !.sd[s.logFile].synced = Len(s.sd[s.logFile].data)]

\* Storage::closeFile()
closeFile(s) ==
    IF s.logFile # NoFile
    THEN [Flush(s) EXCEPT !.logFile = NoFile]
    ELSE s

\* bool Storage::needsRotation()
needsRotation(s) ==
    (s.currentFileSize >= MAX_FILE_SIZE) \/ (s.recordCount >= MAX_RECORDS_PER_FILE)

\* the collision loop of createLogFile
RECURSIVE SuffixSearch(_, _, _, _)
SuffixSearch(files, stamp, filename, suffix) ==
    IF Exists(files, filename) /\ suffix < MAX_SUFFIX
    THEN SuffixSearch(files, stamp, FileName(stamp, suffix), suffix + 1)
    ELSE filename

\* the number of iterations the collision loop of createLogFile has made when
\* it ends: suffix starts at 1 and grows by one in every iteration
RECURSIVE SuffixSearchSteps(_, _, _, _)
SuffixSearchSteps(files, stamp, filename, suffix) ==
    IF Exists(files, filename) /\ suffix < MAX_SUFFIX
    THEN SuffixSearchSteps(files, stamp, FileName(stamp, suffix), suffix + 1)
    ELSE suffix - 1

\* SD.open(filename, FILE_WRITE): creates the file, or truncates an existing one
OpenWrite(files, filename) ==
    [f \in DOMAIN files \cup {filename} |->
        IF f = filename THEN [data |-> <<>>, synced |-> 0] ELSE files[f]]

\* bool Storage::createLogFile(macAddress, data); .ok is the value returned
createLogFile(s, macAddress, data, openOk) ==
    LET s1 == IF s.logFile # NoFile THEN closeFile(s) ELSE s
        macStr == EncodeMac(macAddress)
        filename == SuffixSearch(s1.sd, data.stamp, FileName(data.stamp, 0), 1)
        s2 == [s1 EXCEPT !.currentFileName = filename, !.macAddressStr = macStr]
    IN  IF openOk
        THEN [s2 EXCEPT !.logFile = filename,
                        !.sd = OpenWrite(s2.sd, filename),
                        !.currentFileSize = 0,
                        !.recordCount = 0,
                        !.created = Append(@, filename),
                        !.nameMacs = Append(@, macStr),
                        !.ok = TRUE]
        ELSE [s2 EXCEPT !.logFile = NoFile, !.ioFailed = TRUE, !.ok = FALSE]

\* void Storage::rotateFile(data)
rotateFile(s, data, openOk) ==
    createLogFile(closeFile(s), DecodeMac(s.macAddressStr), data, openOk)

\* the keys of the JSON document of a record; those of the nested object
\* "boat" are written with its name in front
JsonKeys ==
    {"timestamp", "type", "boat.messageType", "boat.sequenceNumber",
     "boat.gpsTimestamp", "boat.latitude", "boat.longitude", "boat.speed",
     "boat.heading", "boat.satellites"}

\* a variant of AppendRecord that leaves the record in the file buffer
AppendRecord_NoFlush(s, data, sequenceNumber, writeOk) ==
    LET rec == [seq |-> sequenceNumber, len |-> data.len, keys |-> JsonKeys]
        s1 == IF s.logFile # NoFile /\ writeOk
              THEN [s EXCEPT !.sd[s.logFile].data = Append(@, rec)]
              ELSE [s EXCEPT !.ioFailed = TRUE]
    IN  [s1 EXCEPT !.currentFileSize = FileSize(s1),
                   !.recordCount = s.recordCount + 1]

\* serializeJson + println + flush, then the two counters
AppendRecord(s, data, sequenceNumber, writeOk) ==
    LET rec == [seq |-> sequenceNumber, len |-> data.len, keys |-> JsonKeys]
        s1 == IF s.logFile # NoFile /\ writeOk
              THEN [s EXCEPT !.sd[s.logFile].data = Append(@, rec)]
              ELSE [s EXCEPT !.ioFailed = TRUE]
        s2 == Flush(s1)
    IN  [s2 EXCEPT !.currentFileSize = FileSize(s2),
                   !.recordCount = s.recordCount + 1]

\* a variant of NeedsCreate that does not wait for a valid fix
NeedsCreate_Eager(s, data) == ~s.fileCreated

\* if (!fileCreated && data.valid)
NeedsCreate(s, data) == ~s.fileCreated /\ data.valid

\* a variant of writeGPSDataResult that returns once it has created the file
\* and leaves the record of the call out
writeGPSDataResult_CreateOnly(s, data, macAddress, sequenceNumber, openOk, writeOk) ==
    IF ~s.sdAvailable THEN s
    ELSE
      LET c  == IF NeedsCreate(s, data)
                THEN createLogFile(s, macAddress, data, openOk) ELSE s
          s1 == IF NeedsCreate(s, data) /\ c.ok
                THEN [c EXCEPT !.fileCreated = TRUE] ELSE c
      IN  IF ~c.ok \/ NeedsCreate(s, data) THEN s1
          ELSE IF ~s1.fileCreated \/ s1.logFile = NoFile THEN s1
          ELSE LET s2 == IF needsRotation(s1)
                         THEN rotateFile(s1, data, openOk) ELSE s1
               IN  AppendRecord(s2, data, sequenceNumber, writeOk)

\* a variant of writeGPSDataResult that marks the file created whatever
\* createLogFile returned
writeGPSDataResult_MarksCreated(s, data, macAddress, sequenceNumber, openOk, writeOk) ==
    IF ~s.sdAvailable THEN s
    ELSE
      LET c  == IF NeedsCreate(s, data)
                THEN createLogFile(s, macAddress, data, openOk) ELSE s
          s1 == IF NeedsCreate(s, data)
                THEN [c EXCEPT !.fileCreated = TRUE] ELSE c
      IN  IF ~c.ok THEN s1
          ELSE IF ~s1.fileCreated \/ s1.logFile = NoFile THEN s1
          ELSE LET s2 == IF needsRotation(s1)
                         THEN rotateFile(s1, data, openOk) ELSE s1
               IN  AppendRecord(s2, data, sequenceNumber, writeOk)

\* void Storage::writeGPSData(data, macAddress, sequenceNumber)
writeGPSDataResult(s, data, macAddress, sequenceNumber, openOk, writeOk) ==
    IF ~s.sdAvailable THEN s
    ELSE
      LET c  == IF NeedsCreate(s, data)
                THEN createLogFile(s, macAddress, data, openOk) ELSE s
          s1 == IF NeedsCreate(s, data) /\ c.ok
                THEN [c EXCEPT !.fileCreated = TRUE] ELSE c
      IN  IF ~c.ok THEN c
          ELSE IF ~s1.fileCreated \/ s1.logFile = NoFile THEN s1
          ELSE LET s2 == IF needsRotation(s1)
                         THEN rotateFile(s1, data, openOk) ELSE s1
               IN  AppendRecord(s2, data, sequenceNumber, writeOk)

\* a variant of StorageBegin that marks the card available before mounting it
StorageBegin_AvailableFirst(enableSD, mountOk) ==
    /\ mount = "none"
    /\ IF ~enableSD
       THEN /\ mount' = "disabled"
            /\ UNCHANGED <<sdAvailable, mountAttempts, ioFailed>>
       ELSE /\ mountAttempts' = mountAttempts + 1
            /\ sdAvailable' = TRUE
            /\ mount' = IF mountOk THEN "mounted" ELSE "failed"
            /\ ioFailed' = ~mountOk
    /\ UNCHANGED <<fileCreated, currentFileSize, recordCount, currentFileName,
                   logFile, sd, writeCalls, validCalls, created, sizeReached,
                   preexisting, macAddressStr, nameMacs>>

\* bool Storage::begin(enableSD), called once by setup(); mountOk is SD.begin's result
StorageBegin(enableSD, mountOk) ==
    /\ mount = "none"
    /\ IF ~enableSD
       THEN /\ mount' = "disabled"
            /\ UNCHANGED <<sdAvailable, mountAttempts, ioFailed>>
       ELSE /\ mountAttempts' = mountAttempts + 1
            /\ sdAvailable' = mountOk
            /\ mount' = IF mountOk THEN "mounted" ELSE "failed"
            /\ ioFailed' = ~mountOk
    /\ UNCHANGED <<fileCreated, currentFileSize, recordCount, currentFileName,
                   logFile, sd, writeCalls, validCalls, created, sizeReached,
                   preexisting, macAddressStr, nameMacs>>

\* one writeGPSData call
writeGPSData(data, sequenceNumber, openOk, writeOk) ==
    \E r \in {writeGPSDataResult(StorageState, data, mac, sequenceNumber, openOk, writeOk)} :
    /\ mount # "none"
    /\ sdAvailable' = r.sdAvailable
    /\ fileCreated' = r.fileCreated
    /\ currentFileSize' = r.currentFileSize
    /\ recordCount' = r.recordCount
    /\ currentFileName' = r.currentFileName
    /\ logFile' = r.logFile
    /\ sd' = r.sd
    /\ created' = r.created
    /\ ioFailed' = r.ioFailed
    /\ macAddressStr' = r.macAddressStr
    /\ nameMacs' = r.nameMacs
    /\ sizeReached' = (sizeReached \/ r.currentFileSize >= MAX_FILE_SIZE)
    /\ writeCalls' = writeCalls + 1
    /\ validCalls' = IF data.valid THEN validCalls + 1 ELSE validCalls
    /\ UNCHANGED <<mount, mountAttempts, preexisting>>

\* bool Storage::isAvailable()
isAvailable == sdAvailable

\* String Storage::getCurrentFileName()
getCurrentFileName == IF ~fileCreated THEN "Waiting for GPS fix..." ELSE currentFileName

\* the fixes handed to writeGPSData
StorageFixes == [valid : BOOLEAN, stamp : Stamps, len : JsonLens]

NextStorage ==
    \/ \E enableSD \in BOOLEAN, mountOk \in BOOLEAN :
          StorageBegin(enableSD, mountOk) /\ UNCHANGED <<commVars, gpsVars, loopVars, pktVars>>
    \/ \E data \in StorageFixes, openOk \in BOOLEAN, writeOk \in BOOLEAN :
          /\ writeCalls < MaxWrites
          /\ writeGPSData(data, writeCalls + 1, openOk, writeOk)
          /\ UNCHANGED <<commVars, gpsVars, loopVars, pktVars>>

\* a session on a mounted medium: valid fixes only, every file operation succeeds
NextRotation ==
    \/ StorageBegin(TRUE, TRUE) /\ UNCHANGED <<commVars, gpsVars, loopVars, pktVars>>
    \/ \E data \in StorageFixes :
          /\ data.valid
          /\ writeCalls < MaxGoodWrites
          /\ writeGPSData(data, writeCalls + 1, TRUE, TRUE)
          /\ UNCHANGED <<commVars, gpsVars, loopVars, pktVars>>

(***************************************************************************)
(* Orchestrator: setup() and loop()                                        *)
(***************************************************************************)
\* the MAC addresses of the boards followed
Macs == {<<0, 0, 0, 0, 0, 0>>, <<170, 187, 204, 221, 238, 255>>, <<36, 10, 196, 9, 95, 128>>}

\* the globals of main.cpp before setup(), on a board with the given MAC
\* address and stored preference
InitLoopOn(stored, m) ==
    /\ prefName = stored
    /\ mac = m
    /\ boatName = <<>>
    /\ led = "off"
    /\ espNow = "down"
    /\ loopPc = "setup"
    /\ loopData = [valid |-> FALSE, timestamp |-> 0, satellites |-> 0, age |-> 0]
    /\ millis = U32(0)
    /\ lastBroadcast = U32(0)
    /\ validPacketCount = 0
    /\ invalidPacketCount = 0
    /\ seqNum = U32(0)
    /\ ticks = 0
    /\ refSeq = U32(0)
    /\ refData = [valid |-> FALSE, timestamp |-> 0, satellites |-> 0, age |-> 0]

\* a board without a stored name
InitLoop == InitLoopOn(<<>>, <<170, 187, 204, 221, 238, 255>>)

\* snprintf(macStr, sizeof(macStr), "%02X:%02X:%02X:%02X:%02X:%02X", mac[0], ..., mac[5])
\* into char macStr[18]: the output is cut to sizeof(macStr) - 1 characters
MacString(m) ==
    LET Group(i) == <<HexDigit(m[i] \div 16), HexDigit(m[i] % 16)>>
        full == Group(1) \o <<ASCII_COLON>> \o Group(2) \o <<ASCII_COLON>> \o
                Group(3) \o <<ASCII_COLON>> \o Group(4) \o <<ASCII_COLON>> \o
                Group(5) \o <<ASCII_COLON>> \o Group(6)
    IN  SubSeq(full, 1, IF Len(full) < MAC_STR_SIZE - 1 THEN Len(full) ELSE MAC_STR_SIZE - 1)

\* a variant of SetupName that ignores the preferences
SetupName_MacOnly(stored, m) == MacString(m)

\* boatName = preferences.getString("boat_name", ""); if (boatName.length() == 0)
\* boatName = String(macStr);
SetupName(stored, m) == IF Len(stored) = 0 THEN MacString(m) ELSE stored

\* the globals of main.cpp between two iterations of loop(), in a session
\* that has run for a long time on a board without a stored name: setup() is
\* over, the last tick was at t, and the packet counters stand at 0 (no call
\* has returned true; invalidPacketCount, a uint32_t, has come back to 0)
InitLoopLate(m, t) ==
    /\ prefName = <<>>
    /\ mac = m
    /\ boatName = SetupName(<<>>, m)
    /\ led = "yellow"
    /\ espNow = "ready"
    /\ loopPc = "top"
    /\ loopData = [valid |-> FALSE, timestamp |-> 0, satellites |-> 0, age |-> 0]
    /\ millis = t
    /\ lastBroadcast = t
    /\ validPacketCount = 0
    /\ invalidPacketCount = 0
    /\ seqNum = U32(0)
    /\ ticks = 0
    /\ refSeq = U32(0)
    /\ refData = [valid |-> FALSE, timestamp |-> 0, satellites |-> 0, age |-> 0]

\* the ESP-NOW driver after Communication::begin(): esp_now_init() and
\* esp_now_add_peer() succeed or not (initOk, peerOk)
CommBeginDriver(initOk, peerOk) ==
    IF ~initOk THEN "down" ELSE IF ~peerOk THEN "initialised" ELSE "ready"

\* Communication::begin() returns true when both calls returned ESP_OK
CommBegin(initOk, peerOk) == CommBeginDriver(initOk, peerOk) = "ready"

\* a variant of LoopSetup that goes on whatever Communication::begin() returns
LoopSetup_IgnoresBegin(enableSD, mountOk, initOk, peerOk) ==
    /\ loopPc = "setup"
    /\ espNow' = CommBeginDriver(initOk, peerOk)
    /\ boatName' = SetupName(prefName, mac)
    /\ StorageBegin(enableSD, mountOk)
    /\ led' = "yellow"
    /\ loopPc' = "top"
    /\ UNCHANGED <<loopData, millis, lastBroadcast, validPacketCount,
                   invalidPacketCount, seqNum, ticks, refSeq, refData,
                   prefName, mac>>

\* setup(): gps.begin() (always true), comm.begin() (on false: red blinks,
\* which leave the LED off, and while(1)), the boat name, then "4.
\* Initializing Storage" (enableSD is the build's ENABLE_SD_STORAGE; a failed
\* mount is a warning and setup goes on), then the yellow LED
LoopSetup(enableSD, mountOk, initOk, peerOk) ==
    /\ loopPc = "setup"
    /\ espNow' = CommBeginDriver(initOk, peerOk)
    /\ IF CommBegin(initOk, peerOk)
       THEN /\ boatName' = SetupName(prefName, mac)
            /\ StorageBegin(enableSD, mountOk)
            /\ led' = "yellow"
            /\ loopPc' = "top"
       ELSE /\ led' = "off"
            /\ loopPc' = "halt"
            /\ UNCHANGED boatName
            /\ UNCHANGED stVars
    /\ UNCHANGED <<loopData, millis, lastBroadcast, validPacketCount,
                   invalidPacketCount, seqNum, ticks, refSeq, refData,
                   prefName, mac>>

\* a variant of TickDue that compares the clock with the sum
\* lastBroadcast + BROADCAST_INTERVAL (uint32_t)
TickDue_Deadline(currentTime, last) ==
    LET deadline == U32Add(last, BROADCAST_INTERVAL)
    IN  currentTime.hi > deadline.hi
            \/ (currentTime.hi = deadline.hi /\ currentTime.lo >= deadline.lo)

\* currentTime - lastBroadcast >= BROADCAST_INTERVAL (uint32_t)
TickDue(currentTime, last) == U32AtLeast(U32Sub(currentTime, last), BROADCAST_INTERVAL)

\* loop() from its first line to the call of broadcastGPSData: the clock is
\* read, the GPS updated, the snapshot taken, and on a broadcast tick the fix
\* is either valid (go on to the broadcast) or counted as invalid
LoopBegin(elapsed, commit, sats, t) ==
    /\ loopPc = "top"
    /\ ticks < MaxTicks
    /\ millis' = U32Add(millis, elapsed)
    \* the age of the decoder's location is followed in whole steps of AGE_STEP_MS
    /\ GPSUpdate(commit, sats, (elapsed \div AGE_STEP_MS) * AGE_STEP_MS, t)
    /\ loopData' = getData'
    /\ IF TickDue(millis', lastBroadcast)
       THEN /\ lastBroadcast' = millis'
            /\ ticks' = ticks + 1
            /\ IF isValid'
               THEN /\ led' = "green"
                    /\ loopPc' = "broadcast"
                    /\ refSeq' = NextSequence(refSeq)
                    /\ refData' = getData'
                    /\ UNCHANGED invalidPacketCount
               ELSE /\ led' = "yellow"
                    /\ invalidPacketCount' = invalidPacketCount + 1
                    /\ loopPc' = "top"
                    /\ UNCHANGED <<refSeq, refData>>
       ELSE UNCHANGED <<lastBroadcast, ticks, loopPc, invalidPacketCount,
                        refSeq, refData, led>>
    /\ UNCHANGED <<validPacketCount, seqNum, boatName, prefName, mac, espNow>>

\* bool success = comm.broadcastGPSData(data, boatName, 4): the call is entered
LoopBroadcast ==
    /\ loopPc = "broadcast"
    /\ BroadcastEnter(LOOP_RETRIES)
    /\ loopPc' = "sending"
    /\ UNCHANGED <<loopData, millis, lastBroadcast, validPacketCount,
                   invalidPacketCount, seqNum, ticks, refSeq, refData,
                   led, boatName, prefName, mac, espNow>>

\* a variant of LoopAfterBroadcast that numbers the record by the count of
\* accepted packets
LoopAfterBroadcast_CountsAccepted ==
    /\ loopPc = "sending"
    /\ commPc = "idle"
    /\ IF lastResult = TRUE
       THEN /\ validPacketCount' = validPacketCount + 1
            /\ seqNum' = U32(validPacketCount')
            /\ loopPc' = "store"
       ELSE /\ loopPc' = "top"
            /\ UNCHANGED <<validPacketCount, seqNum>>
    /\ UNCHANGED <<loopData, millis, lastBroadcast, invalidPacketCount, ticks,
                   refSeq, refData, led, boatName, prefName, mac, espNow>>

\* the call has returned: if (success) { validPacketCount++; seqNum = ... }
LoopAfterBroadcast ==
    /\ loopPc = "sending"
    /\ commPc = "idle"
    /\ IF lastResult = TRUE
       THEN /\ validPacketCount' = validPacketCount + 1
            /\ seqNum' = getSequenceNumber
            /\ loopPc' = "store"
       ELSE /\ loopPc' = "top"
            /\ UNCHANGED <<validPacketCount, seqNum>>
    /\ UNCHANGED <<loopData, millis, lastBroadcast, invalidPacketCount, ticks,
                   refSeq, refData, led, boatName, prefName, mac, espNow>>

\* the GPSData handed to writeGPSData; len is the size its JSON document
\* serializes to
LogFix(d, len) == [valid |-> d.valid, stamp |-> d.timestamp, len |-> len]

\* a variant of LoopStore that stops the loop when a storage operation has failed
LoopStore_HaltsOnFailure(len, openOk, writeOk) ==
    /\ loopPc = "store"
    /\ IF mount = "disabled"
       THEN UNCHANGED stVars
       ELSE writeGPSData(LogFix(loopData, len), seqNum, openOk, writeOk)
    /\ loopPc' = IF ioFailed' THEN "halt" ELSE "top"
    /\ UNCHANGED <<loopData, millis, lastBroadcast, validPacketCount,
                   invalidPacketCount, seqNum, ticks, refSeq, refData,
                   led, boatName, prefName, mac, espNow>>

\* if (ENABLE_SD_STORAGE) { storage.writeGPSData(data, mac, seqNum); }
LoopStore(len, openOk, writeOk) ==
    /\ loopPc = "store"
    /\ IF mount = "disabled"
       THEN UNCHANGED stVars
       ELSE writeGPSData(LogFix(loopData, len), seqNum, openOk, writeOk)
    /\ loopPc' = "top"
    /\ UNCHANGED <<loopData, millis, lastBroadcast, validPacketCount,
                   invalidPacketCount, seqNum, ticks, refSeq, refData,
                   led, boatName, prefName, mac, espNow>>

\* a variant of UpdateAgain in which getData() had handed out a reference to
\* currentData instead of a copy
UpdateAgain_Aliased(commit, sats, t) ==
    /\ loopPc \in {"broadcast", "sending", "store"}
    /\ GPSUpdate(commit, sats, 0, t)
    /\ loopData' = currentData'
    /\ UNCHANGED <<loopPc, millis, lastBroadcast, validPacketCount,
                   invalidPacketCount, seqNum, ticks, refSeq, refData,
                   led, boatName, prefName, mac, espNow>>

\* gps.update() called again while the caller still holds the GPSData that
\* getData() returned by value
UpdateAgain(commit, sats, t) ==
    /\ loopPc \in {"broadcast", "sending", "store"}
    /\ GPSUpdate(commit, sats, 0, t)
    /\ UNCHANGED loopVars

NextLoop ==
    \/ \E enableSD \in BOOLEAN, mountOk \in BOOLEAN, initOk \in BOOLEAN, peerOk \in BOOLEAN :
          LoopSetup(enableSD, mountOk, initOk, peerOk) /\ UNCHANGED <<commVars, gpsVars, pktVars>>
    \/ \E elapsed \in LoopElapsed, commit \in BOOLEAN, sats \in LoopSats, t \in Stamps :
          LoopBegin(elapsed, commit, sats, t) /\ UNCHANGED <<commVars, stVars, pktVars>>
    \/ LoopBroadcast /\ UNCHANGED <<gpsVars, stVars, pktVars>>
    \/ \E ok \in BOOLEAN : SendAttempt(ok) /\ UNCHANGED <<gpsVars, stVars, loopVars, pktVars>>
    \/ LoopExit /\ UNCHANGED <<gpsVars, stVars, loopVars, pktVars>>
    \/ BroadcastReturn /\ UNCHANGED <<gpsVars, stVars, loopVars, pktVars>>
    \/ LoopAfterBroadcast /\ UNCHANGED <<commVars, gpsVars, stVars, pktVars>>
    \/ \E len \in JsonLens, openOk \in BOOLEAN, writeOk \in BOOLEAN :
          LoopStore(len, openOk, writeOk) /\ UNCHANGED <<commVars, gpsVars, pktVars>>

(***************************************************************************)
(* The packet of broadcastGPSData, byte by byte                            *)
(***************************************************************************)
\* struct GPSBroadcastPacket: the members in declaration order, with the size
\* and the alignment of their types (int8_t, char[18], uint32_t, float, uint8_t)
Fields ==
    << [name |-> "messageType",    size |-> 1,  align |-> 1],
       [name |-> "name",           size |-> 18, align |-> 1],
       [name |-> "sequenceNumber", size |-> 4,  align |-> 4],
       [name |-> "gpsTimestamp",   size |-> 4,  align |-> 4],
       [name |-> "latitude",       size |-> 4,  align |-> 4],
       [name |-> "longitude",      size |-> 4,  align |-> 4],
       [name |-> "speed",          size |-> 4,  align |-> 4],
       [name |-> "heading",        size |-> 4,  align |-> 4],
       [name |-> "satellites",     size |-> 1,  align |-> 1] >>

\* the index in Fields of the member called n
FieldIndex(n) == CHOOSE i \in DOMAIN Fields : Fields[i].name = n

\* the next multiple of a at or after off
AlignUp(off, a) == ((off + a - 1) \div a) * a

\* offsetof(GPSBroadcastPacket, member i): the struct is not declared packed,
\* so every member starts at the next multiple of its alignment
RECURSIVE OffsetOf(_)
OffsetOf(i) ==
    IF i = 1 THEN 0
    ELSE AlignUp(OffsetOf(i - 1) + Fields[i - 1].size, Fields[i].align)

\* the alignment of the struct: the largest alignment among the first i members
RECURSIVE MaxAlign(_)
MaxAlign(i) ==
    IF i = 0 THEN 1
    ELSE IF Fields[i].align > MaxAlign(i - 1) THEN Fields[i].align ELSE MaxAlign(i - 1)

\* sizeof(GPSBroadcastPacket): the end of the last member, rounded up to the
\* alignment of the struct
SizeOf ==
    AlignUp(OffsetOf(Len(Fields)) + Fields[Len(Fields)].size, MaxAlign(Len(Fields)))

\* the memory mem after bytes were stored at the byte offset off
StoreBytes(mem, off, bytes) ==
    [i \in DOMAIN mem |->
        IF i > off /\ i <= off + Len(bytes) THEN bytes[i - off] ELSE mem[i]]

\* the bytes strncpy(dest, src, n) stores at dest: the characters of src up to
\* n of them, then null bytes up to n bytes in all
Strncpy(src, n) == [i \in 1..n |-> IF i <= Len(src) THEN src[i] ELSE 0]

\* a variant of CopyName without the line that sets the last byte of the field
CopyName_NoTerminator(mem, nameArg) ==
    StoreBytes(mem, OffsetOf(FieldIndex("name")),
               Strncpy(nameArg, Fields[FieldIndex("name")].size - 1))

\* strncpy(packet.name, boatName.c_str(), sizeof(packet.name) - 1);
\* packet.name[sizeof(packet.name) - 1] = '\0';
CopyName(mem, nameArg) ==
    LET off == OffsetOf(FieldIndex("name"))
        n   == Fields[FieldIndex("name")].size
    IN  StoreBytes(StoreBytes(mem, off, Strncpy(nameArg, n - 1)), off + n - 1, <<0>>)

\* the four bytes of a uint32_t [hi, lo] in memory (little-endian)
U32Bytes(u) ==
    << u.lo % UINT8_MOD, u.lo \div UINT8_MOD, u.hi % UINT8_MOD, u.hi \div UINT8_MOD >>

RECURSIVE Pow2(_)
Pow2(e) == IF e = 0 THEN 1 ELSE 2 * Pow2(e - 1)

\* the exponent of the leading bit of m > 0
RECURSIVE Log2(_)
Log2(m) == IF m < 2 THEN 0 ELSE 1 + Log2(m \div 2)

Abs(n) == IF n < 0 THEN -n ELSE n

\* the conversion of a number to float: [sign, exp, sig] stands for
\* (-1)^sign * sig * 2^(exp - 23) with a 24-bit significand sig, the nearest
\* such value to n, ties to the even significand; 0 has sig = 0.
\* Numbers are integers here (a position is counted in units of 1e-6 degree).
ToFloat(n) ==
    IF n = 0 THEN [sign |-> 0, exp |-> -FLOAT_BIAS, sig |-> 0]
    ELSE
      LET m == Abs(n)
          e == Log2(m)
          sh == e - FLOAT_FRAC_BITS
          q == IF sh <= 0 THEN m * Pow2(-sh) ELSE m \div Pow2(sh)
          r == IF sh <= 0 THEN 0 ELSE m % Pow2(sh)
          half == IF sh <= 0 THEN 1 ELSE Pow2(sh - 1)
          up == sh > 0 /\ (r > half \/ (r = half /\ q % 2 = 1))
          q1 == IF up THEN q + 1 ELSE q
      IN  IF q1 = Pow2(FLOAT_FRAC_BITS + 1)
          THEN [sign |-> IF n < 0 THEN 1 ELSE 0, exp |-> e + 1,
                sig |-> Pow2(FLOAT_FRAC_BITS)]
          ELSE [sign |-> IF n < 0 THEN 1 ELSE 0, exp |-> e, sig |-> q1]

\* the four bytes of a float in memory (IEEE 754 single, little-endian):
\* 1 sign bit, 8 bits of biased exponent, 23 bits of fraction
FloatBytes(f) ==
    LET bexp == IF f.sig = 0 THEN 0 ELSE f.exp + FLOAT_BIAS
        frac == IF f.sig = 0 THEN 0 ELSE f.sig - Pow2(FLOAT_FRAC_BITS)
    IN  << frac % UINT8_MOD,
           (frac \div UINT8_MOD) % UINT8_MOD,
           (frac \div WORD_MOD) + (bexp % 2) * (UINT8_MOD \div 2),
           (bexp \div 2) + f.sign * (UINT8_MOD \div 2) >>

\* identifiers: the empty one, a short one, and those around the 17 characters
\* the field has room for; the character at position i is the byte 64 + i
NameLens == {0, 1} \cup (16..MaxNameLen)
Names == {[i \in 1..n |-> 64 + i] : n \in NameLens}

\* what the bytes of the stack can hold where the packet is declared
GarbageBytes == {0, 170, 255}

\* values of sequenceCounter at the call: a small one and one above 2^16
PacketSequences == {U32(1), U32(70000)}

\* the fixes of the call: timestamp (uint32_t), latitude and longitude (double,
\* in 1e-6 degree), speed and course (float), satellites (uint8_t)
PacketFixes ==
    [timestamp : {U32(2), U32(70001)},
     latitude : {0, 48123456},
     longitude : {-4123456, 16777217},
     speed : {ToFloat(5)},
     course : {ToFloat(45)},
     satellites : {4, 255}]

PacketArgs ==
    [boatName : Names, data : PacketFixes, seq : PacketSequences,
     garbage : GarbageBytes]

\* GPSBroadcastPacket packet; -- a local without initializer: its bytes,
\* padding included, are whatever the stack held
InitPacketOn(a) ==
    /\ pktPc = "declared"
    /\ args = a
    /\ packetBytes = [i \in 1..SizeOf |-> a.garbage]
    /\ wire = [buf |-> <<>>, len |-> 0]

\* packet.messageType = 1;
PacketType ==
    /\ pktPc = "declared"
    /\ packetBytes' = StoreBytes(packetBytes, OffsetOf(FieldIndex("messageType")), <<1>>)
    /\ pktPc' = "typed"
    /\ UNCHANGED <<args, wire>>

\* the two lines that fill packet.name
PacketName ==
    /\ pktPc = "typed"
    /\ packetBytes' = CopyName(packetBytes, args.boatName)
    /\ pktPc' = "named"
    /\ UNCHANGED <<args, wire>>

\* packet.sequenceNumber = sequenceCounter; ... packet.satellites = data.satellites;
PacketFields ==
    LET m1 == StoreBytes(packetBytes, OffsetOf(FieldIndex("sequenceNumber")),
                         U32Bytes(args.seq))
        m2 == StoreBytes(m1, OffsetOf(FieldIndex("gpsTimestamp")),
                         U32Bytes(args.data.timestamp))
        m3 == StoreBytes(m2, OffsetOf(FieldIndex("latitude")),
                         FloatBytes(ToFloat(args.data.latitude)))
        m4 == StoreBytes(m3, OffsetOf(FieldIndex("longitude")),
                         FloatBytes(ToFloat(args.data.longitude)))
        m5 == StoreBytes(m4, OffsetOf(FieldIndex("speed")),
                         FloatBytes(args.data.speed))
        m6 == StoreBytes(m5, OffsetOf(FieldIndex("heading")),
                         FloatBytes(args.data.course))
    IN  /\ pktPc = "named"
        /\ packetBytes' = StoreBytes(m6, OffsetOf(FieldIndex("satellites")),
                                     <<args.data.satellites>>)
        /\ pktPc' = "filled"
        /\ UNCHANGED <<args, wire>>

\* esp_now_send(broadcastAddr, (uint8_t*)&packet, sizeof(packet))
PacketSend ==
    /\ pktPc = "filled"
    /\ wire' = [buf |-> SubSeq(packetBytes, 1, SizeOf), len |-> SizeOf]
    /\ pktPc' = "sent"
    /\ UNCHANGED <<args, packetBytes>>

NextPacket ==
    \/ PacketType /\ UNCHANGED <<commVars, gpsVars, stVars, loopVars>>
    \/ PacketName /\ UNCHANGED <<commVars, gpsVars, stVars, loopVars>>
    \/ PacketFields /\ UNCHANGED <<commVars, gpsVars, stVars, loopVars>>
    \/ PacketSend /\ UNCHANGED <<commVars, gpsVars, stVars, loopVars>>

\* the fix of the call the identifier is followed through
IdentityFix ==
    [timestamp |-> U32(2), latitude |-> 48123456, longitude |-> -4123456,
     speed |-> ToFloat(5), course |-> ToFloat(45), satellites |-> MIN_SATELLITES]

\* comm.broadcastGPSData(data, boatName, 4) is entered from loop() and declares
\* its local packet: the identifier of the call is the global boatName
PacketDeclare(seq, g) ==
    /\ loopPc = "broadcast"
    /\ pktPc = "none"
    /\ args' = [boatName |-> boatName, data |-> IdentityFix, seq |-> seq, garbage |-> g]
    /\ packetBytes' = [i \in 1..SizeOf |-> g]
    /\ pktPc' = "declared"
    /\ UNCHANGED wire

\* no broadcastGPSData call has been entered
InitNoPacket ==
    /\ pktPc = "none"
    /\ args = [boatName |-> <<>>, data |-> IdentityFix, seq |-> U32(0), garbage |-> 0]
    /\ packetBytes = [i \in 1..SizeOf |-> 0]
    /\ wire = [buf |-> <<>>, len |-> 0]

\* setup(), loop() up to its first broadcast, and the packet of that broadcast
NextIdentity ==
    \/ \E enableSD, mountOk, initOk, peerOk \in BOOLEAN :
           LoopSetup(enableSD, mountOk, initOk, peerOk) /\ UNCHANGED <<commVars, gpsVars, pktVars>>
    \/ \E elapsed \in LoopElapsed, commit \in BOOLEAN, sats \in LoopSats, t \in Stamps :
           LoopBegin(elapsed, commit, sats, t) /\ UNCHANGED <<commVars, stVars, pktVars>>
    \/ \E seq \in PacketSequences, g \in GarbageBytes :
           PacketDeclare(seq, g) /\ UNCHANGED <<commVars, gpsVars, stVars, loopVars>>
    \/ NextPacket

\* a call with an empty identifier and a fix of zeros
InitPacket ==
    InitPacketOn([boatName |-> <<>>,
                  data |-> [timestamp |-> U32(0), latitude |-> 0, longitude |-> 0,
                            speed |-> ToFloat(0), course |-> ToFloat(0),
                            satellites |-> 0],
                  seq |-> U32(1), garbage |-> 0])

\* media a session can start on: empty, or holding colliding names of stamp 1
Media == {Colliding(1, 0), Colliding(1, 2), Colliding(1, MAX_SUFFIX)}

InitStorage == \E medium \in Media : InitStorageOn(medium)

Init == InitComm /\ InitGPS /\ InitStorageOn(Colliding(1, 0)) /\ InitLoop /\ InitPacket

SpecCallback == Init /\ [][NextCallback]_vars

SpecComm == Init /\ [][NextComm]_vars

SpecGPS == Init /\ [][NextGPS]_vars

\* the largest uint32_t (UINT32_MAX)
U32_MAX == [hi |-> WORD_MOD - 1, lo |-> WORD_MOD - 1]

\* sessions that have issued 65535 (the low word is about to carry), and
\* sessions two calls before the counter reaches UINT32_MAX
LateCounters == {[hi |-> 0, lo |-> WORD_MOD - 1], [hi |-> WORD_MOD - 1, lo |-> WORD_MOD - 3]}

InitLate ==
    /\ InitGPS /\ InitStorageOn(Colliding(1, 0)) /\ InitLoop /\ InitPacket
    /\ \E c \in LateCounters : InitCommAfter(c)

SpecWrap == InitLate /\ [][NextComm]_vars

SpecClock == Init /\ [][NextClock]_vars

InitSD == InitComm /\ InitGPS /\ InitStorage /\ InitLoop /\ InitPacket

\* the orchestrator starts on an empty medium or on one where every name of
\* stamp 1 is taken
LoopMedia == {Colliding(1, 0), Colliding(1, MAX_SUFFIX)}

InitMain ==
    /\ InitComm /\ InitGPS /\ InitLoop /\ InitPacket
    /\ \E medium \in LoopMedia : InitStorageOn(medium)

InitCall ==
    /\ InitComm /\ InitGPS /\ InitStorageOn(Colliding(1, 0)) /\ InitLoop
    /\ \E a \in PacketArgs : InitPacketOn(a)

\* boards with any of the stored names (the empty one included) and MAC addresses
InitIdentity ==
    /\ InitComm /\ InitGPS /\ InitStorageOn(Colliding(1, 0)) /\ InitNoPacket
    /\ \E stored \in Names, m \in Macs : InitLoopOn(stored, m)

SpecIdentity == InitIdentity /\ [][NextIdentity]_vars

SpecStorage == InitSD /\ [][NextStorage]_vars

SpecRotation == InitSD /\ [][NextRotation]_vars

\* MAC addresses with every kind of byte: 00, FF, digits only, letters only,
\* a letter in one half
RotationMacs ==
    Macs \cup {<<1, 35, 69, 103, 137, 171>>, <<10, 160, 9, 144, 15, 240>>,
               <<255, 255, 255, 255, 255, 255>>}

\* sessions of boards with any of these MAC addresses
InitMac ==
    /\ InitComm /\ InitGPS /\ InitStorage /\ InitPacket
    /\ \E m \in RotationMacs : InitLoopOn(<<>>, m)

SpecMac == InitMac /\ [][NextRotation]_vars

\* the orchestrator, with further update() calls while a snapshot is in use
NextFrame ==
    \/ NextLoop
    \/ \E sats \in LoopSats, t \in Stamps :
           UpdateAgain(TRUE, sats, t) /\ UNCHANGED <<commVars, stVars, pktVars>>

SpecFrame == InitMain /\ [][NextFrame]_vars

SpecLoop == InitMain /\ [][NextLoop]_vars

\* millis() readings shortly before the clock wraps: 2^32 - 1500 and 2^32 - 600
LateClocks ==
    {[hi |-> WORD_MOD - 1, lo |-> WORD_MOD - 1500], [hi |-> WORD_MOD - 1, lo |-> WORD_MOD - 600]}

\* a long session of a build without SD storage: the sequence counter stands
\* at 2^32 - 2 and the clock shortly before its wrap
InitLateSession ==
    /\ InitCommAfter([hi |-> WORD_MOD - 1, lo |-> WORD_MOD - 2])
    /\ InitGPS /\ InitPacket
    /\ InitStorageAs(Colliding(1, 0), "disabled")
    /\ \E t \in LateClocks : InitLoopLate(<<170, 187, 204, 221, 238, 255>>, t)

\* boards that start, and boards in a long session
InitUptime == InitMain \/ InitLateSession

SpecUptime == InitUptime /\ [][NextLoop]_vars

SpecPacket == InitCall /\ [][NextPacket]_vars

(***************************************************************************)
(* Properties                                                              *)
(***************************************************************************)
\* C1: the k-th broadcastGPSData call since construction carries sequence
\* number k in its packet and getSequenceNumber() is k from then on, whatever
\* the retries and the results of the calls.
C1_SequencePerCall ==
    /\ getSequenceNumber = U32(calls)
    /\ calls > 0 => packet.sequenceNumber = U32(calls)

\* the second call is accepted on a retry, after a first call that returned false
C1_Witness ==
    /\ calls = 2
    /\ lastResult = FALSE
    /\ commPc = "return"
    /\ success
    /\ sends >= 2

\* C2: broadcastGPSData returns true iff one of its 1 + retries attempts was
\* accepted, false iff all 1 + retries attempts were rejected, and retries = 0
\* makes exactly one attempt.
C2_ReturnsAcceptance ==
    commPc = "return" =>
        /\ success <=> (accepted >= 1 /\ sends <= 1 + retries)
        /\ ~success <=> (accepted = 0 /\ sends = 1 + retries)
        /\ retries = 0 => sends = 1

\* C3: a broadcastGPSData call makes at most 1 + retries send attempts, for
\* every retries in 0..255 and every pattern of rejections.
C3_BoundedAttempts == sends <= 1 + retries

\* C4: after any update() call isValid() is true iff, at that call, the
\* decoder's position was valid and its satellite count was at least 4, also
\* when the decoder reported no newly updated location.
C4_ValidIffLastUpdate ==
    updates # "none" =>
        (isValid <=> (gps.valid /\ gps.satellites >= MIN_SATELLITES))

\* C5: isValid() is true only while the age of the decoder's location is
\* below MAX_AGE_MS.
C5_StaleNeverValid == isValid => gps.age < MAX_AGE_MS

\* C6: after a failed mount in begin(true), isAvailable() stays false, every
\* writeGPSData call changes nothing (no file, no record, no counter) and the
\* mount is not attempted again.
C6_MountFailureDisables ==
    mount = "failed" =>
        /\ ~isAvailable
        /\ sd = <<>>
        /\ created = <<>>
        /\ ~fileCreated
        /\ logFile = NoFile
        /\ currentFileName = NoFile
        /\ recordCount = 0
        /\ currentFileSize = 0
        /\ mountAttempts = 1

\* writeGPSData was called with valid and invalid fixes after the failed mount
C6_Witness ==
    /\ mount = "failed"
    /\ writeCalls >= 3
    /\ validCalls >= 2
    /\ validCalls < writeCalls

\* C7: no file is created and no record appended before the first
\* writeGPSData call with a valid fix, and that first valid call creates
\* exactly one file and appends exactly one record to it.
C7_FirstValidCreates ==
    [][/\ validCalls' = 0 => (sd' = <<>> /\ created' = <<>>)
       /\ (validCalls = 0 /\ validCalls' = 1) =>
              /\ Len(created') = 1
              /\ DOMAIN sd' = {created'[1]}
              /\ Len(sd'[created'[1]].data) = 1]_vars

\* C7 (amended): as C7, the first valid call creating its file and appending
\* its record when the medium is mounted and the file operations of the call
\* succeed.
C7_FirstValidCreatesWhenWorking ==
    [][/\ validCalls' = 0 => (sd' = <<>> /\ created' = <<>>)
       /\ (validCalls = 0 /\ validCalls' = 1 /\ isAvailable /\ ~ioFailed') =>
              /\ Len(created') = 1
              /\ DOMAIN sd' = {created'[1]}
              /\ Len(sd'[created'[1]].data) = 1]_vars

\* the first valid fix came after invalid ones and was logged
C7_Witness ==
    /\ validCalls = 1
    /\ writeCalls >= 3
    /\ ~ioFailed
    /\ Len(created) = 1
    /\ Len(sd[created[1]].data) = 1

\* the files of the session are k files, holding M records each but the last,
\* which holds the rest of the n records
FilesHold(n, M, k) ==
    /\ Len(created) = k
    /\ Cardinality(DOMAIN sd) = k
    /\ \A i \in 1..k :
          /\ created[i] \in DOMAIN sd
          /\ Len(sd[created[i]].data) = IF i < k THEN M ELSE n - M * (k - 1)

\* C8: n consecutive writeGPSData calls with valid fixes, the size threshold
\* never reached and every file operation succeeding, produce ceil(n/M) files
\* of M records each, but the last, which holds the remaining records.
C8_RotationCounts ==
    (mount = "mounted" /\ ~ioFailed /\ validCalls = writeCalls /\ ~sizeReached) =>
        FilesHold(writeCalls, MAX_RECORDS_PER_FILE,
                  (writeCalls + MAX_RECORDS_PER_FILE - 1) \div MAX_RECORDS_PER_FILE)

\* C9: createLogFile never opens for writing a name that exists on the
\* medium, left by an earlier session or created in this one, however many
\* colliding names exist.
C9_NoOverwrite ==
    /\ DOMAIN sd \cap OldNames(preexisting) = {}
    /\ \A i, j \in DOMAIN created : i # j => created[i] # created[j]

C11_RecoversAfterFailedRotation ==
    [][\A data \in StorageFixes :
          (/\ sdAvailable
           /\ fileCreated
           /\ logFile = NoFile
           /\ data.valid
           /\ writeGPSData(data, writeCalls + 1, TRUE, TRUE)) =>
              /\ logFile' # NoFile
              /\ Len(created') = Len(created) + 1
              /\ Len(sd'[logFile'].data) = 1
              /\ sd'[logFile'].data[1].seq = writeCalls'
              /\ sd'[logFile'].synced = 1]_vars

\* the collision search that the writeGPSData call of the loop may start ends
\* within MAX_SUFFIX - 1 iterations, whatever names are on the medium
C12_BoundedSearch ==
    loopPc = "store" =>
        SuffixSearchSteps(sd, loopData.timestamp,
                          FileName(loopData.timestamp, 0), 1) <= MAX_SUFFIX - 1

\* the pipeline is where the same pipeline without storage is: the same
\* number of sequence numbers issued, and the packet handed to the transport
\* carries the same sequence number and is built from the same fix
C12_SamePackets ==
    /\ IF loopPc = "broadcast"
       THEN NextSequence(sequenceCounter) = refSeq
       ELSE sequenceCounter = refSeq
    /\ commPc # "idle" =>
          /\ packet.sequenceNumber = refSeq
          /\ loopData = refData
          /\ retries = LOOP_RETRIES

\* the writeGPSData call of the loop waits for nothing: its only precondition
\* is that setup() has run, whatever became of the mount
C12_NonBlocking ==
    loopPc = "store" => mount \in {"disabled", "mounted", "failed"}

\* the step of the loop that calls writeGPSData goes on to the end of the
\* iteration and changes nothing the broadcasts are computed from
C12_StoreStep ==
    loopPc = "store" =>
        /\ loopPc' = "top"
        /\ UNCHANGED <<commVars, gpsVars, loopData, millis, lastBroadcast,
                       validPacketCount, invalidPacketCount, seqNum, ticks>>

\* C12: a storage failure never blocks or aborts the pipeline: every
\* writeGPSData call returns after a bounded number of steps, the collision
\* search included, and the packets handed to the transport (sequence
\* numbers, contents) are those of the same pipeline without storage,
\* whether the medium is mounted, absent or failing.
C12_StorageNeverInterferes ==
    /\ [](C12_BoundedSearch /\ C12_SamePackets /\ C12_NonBlocking)
    /\ [][C12_StoreStep]_vars

\* the second broadcast is accepted after a storage operation of the first
\* cycle failed on a mounted medium
C12_Witness ==
    /\ mount = "mounted"
    /\ ioFailed
    /\ calls = 2
    /\ commPc = "return"
    /\ success

\* C13: for every identifier, of any length, the name field of the packet
\* holds the first min(length, 17) characters of the identifier followed by a
\* null byte, byte 17 of the field is 0, and filling the field writes no byte
\* outside it.
C13_NameField ==
    LET off == OffsetOf(FieldIndex("name"))
        n   == Fields[FieldIndex("name")].size
        k   == IF Len(args.boatName) < n - 1 THEN Len(args.boatName) ELSE n - 1
    IN  /\ pktPc \in {"named", "filled", "sent"} =>
              /\ \A i \in 1..k : packetBytes[off + i] = args.boatName[i]
              /\ packetBytes[off + k + 1] = 0
              /\ packetBytes[off + n] = 0
        /\ pktPc = "named" =>
              \A i \in DOMAIN packetBytes :
                  (i <= off \/ i > off + n) =>
                      packetBytes[i] = IF i = OffsetOf(FieldIndex("messageType")) + 1
                                       THEN 1 ELSE args.garbage

\* an identifier longer than the field was copied over a stack of non-zero bytes
C13_Witness ==
    /\ pktPc = "named"
    /\ Len(args.boatName) > Fields[FieldIndex("name")].size
    /\ args.garbage # 0

\* the wire-packet table: the fields follow one another without padding
RECURSIVE TableOffset(_)
TableOffset(i) == IF i = 1 THEN 0 ELSE TableOffset(i - 1) + Fields[i - 1].size

TableSize == TableOffset(Len(Fields)) + Fields[Len(Fields)].size

\* the bytes of the field called n, for a receiver that reads buf by the table
TableField(buf, n) ==
    SubSeq(buf, TableOffset(FieldIndex(n)) + 1,
           TableOffset(FieldIndex(n)) + Fields[FieldIndex(n)].size)

\* the decoders of a receiver: a null-terminated string, a little-endian
\* uint32_t, an IEEE 754 single
RECURSIVE DecodeName(_)
DecodeName(b) ==
    IF b = <<>> \/ Head(b) = 0 THEN <<>> ELSE <<Head(b)>> \o DecodeName(Tail(b))

DecodeU32(b) ==
    [hi |-> b[3] + b[4] * UINT8_MOD, lo |-> b[1] + b[2] * UINT8_MOD]

DecodeFloat(b) ==
    LET bexp == (b[4] % (UINT8_MOD \div 2)) * 2 + b[3] \div (UINT8_MOD \div 2)
        frac == (b[3] % (UINT8_MOD \div 2)) * WORD_MOD + b[2] * UINT8_MOD + b[1]
    IN  IF bexp = 0 THEN [sign |-> 0, exp |-> -FLOAT_BIAS, sig |-> 0]
        ELSE [sign |-> b[4] \div (UINT8_MOD \div 2), exp |-> bexp - FLOAT_BIAS,
              sig |-> frac + Pow2(FLOAT_FRAC_BITS)]

\* C14: decoding the bytes handed to the transport field by field, as the
\* wire-packet table lays them out, gives back the identifier, the sequence
\* number, the timestamp and the satellite count of the call, and the floats
\* nearest to its position, speed and course.
C14_RoundTrip ==
    pktPc = "sent" =>
        /\ DecodeName(TableField(wire.buf, "name")) = args.boatName
        /\ DecodeU32(TableField(wire.buf, "sequenceNumber")) = args.seq
        /\ DecodeU32(TableField(wire.buf, "gpsTimestamp")) = args.data.timestamp
        /\ TableField(wire.buf, "satellites") = <<args.data.satellites>>
        /\ DecodeFloat(TableField(wire.buf, "latitude")) = ToFloat(args.data.latitude)
        /\ DecodeFloat(TableField(wire.buf, "longitude")) = ToFloat(args.data.longitude)
        /\ DecodeFloat(TableField(wire.buf, "speed")) = args.data.speed
        /\ DecodeFloat(TableField(wire.buf, "heading")) = args.data.course

\* C15: the buffer handed to esp_now_send is laid out as the wire-packet
\* table: every field at the end of the one before it, no padding between or
\* after the fields, 44 bytes in all, sequenceNumber at byte offset 19.
C15_PackedLayout ==
    pktPc = "sent" =>
        /\ wire.len = TableSize
        /\ Len(wire.buf) = TableSize
        /\ \A i \in DOMAIN Fields : OffsetOf(i) = TableOffset(i)

\* the places of the records in the files of the session
RecordSlots == {p \in (DOMAIN sd) \X (1..MaxWrites) : p[2] <= Len(sd[p[1]].data)}

\* C16: every broadcast cycle with a valid fix hands the fix to
\* broadcastGPSData and then to writeGPSData, so that on a mounted and working
\* medium the log holds exactly one record for every sequence number issued.
C16_OneRecordPerSequence ==
    (loopPc = "top" /\ mount = "mounted" /\ ~ioFailed) =>
        /\ writeCalls = calls
        /\ \A k \in 1..calls :
              Cardinality({p \in RecordSlots : sd[p[1]].data[p[2]].seq = U32(k)}) = 1

\* C17: a record is written only after the broadcast call of its cycle has
\* returned, for the fix that call broadcast, and its sequenceNumber is the
\* sequence number the packet of that call carried.
C17_RecordCarriesPacketSequence ==
    [][writeCalls' # writeCalls =>
          /\ commPc = "idle"
          /\ lastResult = TRUE
          /\ loopData = refData
          /\ seqNum = packet.sequenceNumber
          /\ (sd' # sd /\ logFile' # NoFile /\ sd'[logFile'].data # <<>>) =>
                sd'[logFile'].data[Len(sd'[logFile'].data)].seq
                    = packet.sequenceNumber]_vars

\* the only record of the log carries sequence number 2: the first broadcast
\* was rejected, the second accepted and logged
C17_Witness ==
    /\ calls = 2
    /\ loopPc = "top"
    /\ logFile # NoFile
    /\ Len(sd[logFile].data) = 1
    /\ sd[logFile].data[1].seq = U32(2)
    /\ Cardinality(DOMAIN sd) = 1

\* C18: a broadcastGPSData call whose attempts all fail returns false, and
\* every broadcast tick increments validPacketCount or invalidPacketCount, so
\* that the exhaustion shows in the counters.
C18_ExhaustionCounted ==
    /\ (commPc = "return" /\ accepted = 0) => ~success
    /\ loopPc = "top" => validPacketCount + invalidPacketCount = ticks

\* C19: every packet handed to the transport and every writeGPSData call is
\* made with a snapshot that has valid = true and at least 4 satellites,
\* taken from the Fix in the same iteration, in which isValid() is true.
C19_OnlyValidatedLeaves ==
    [][(sends' # sends \/ writeCalls' # writeCalls) =>
          /\ loopData.valid
          /\ loopData.satellites >= MIN_SATELLITES
          /\ loopData = getData
          /\ isValid]_vars

\* a fix was broadcast and logged, and a later iteration found the decoder
\* with fewer satellites
C19_Witness ==
    /\ writeCalls >= 1
    /\ logFile # NoFile
    /\ Len(sd[logFile].data) >= 1
    /\ validPacketCount >= 1
    /\ gps.satellites < MIN_SATELLITES
    /\ updates = "refreshed"

\* C20: as long as the decoder has reported no location, the Fix is as
\* constructed (valid = false, timestamp = 0) after every update() call, no
\* packet is broadcast and no log file is created.
C20_NoLocationNothingLeaves ==
    ~gps.valid =>
        /\ currentData = [valid |-> FALSE, timestamp |-> 0, satellites |-> 0, age |-> 0]
        /\ calls = 0
        /\ sends = 0
        /\ validPacketCount = 0
        /\ writeCalls = 0
        /\ created = <<>>
        /\ sd = <<>>

\* two broadcast ticks have passed on a mounted medium, the decoder seeing
\* enough satellites but reporting no location
C20_Witness ==
    /\ ~gps.valid
    /\ gps.satellites >= MIN_SATELLITES
    /\ updates = "kept"
    /\ mount = "mounted"
    /\ ticks >= 2
    /\ invalidPacketCount >= 2

\* C21: the value broadcastGPSData returns is decided by the results of
\* esp_now_send alone (true iff one attempt was accepted), and a step of the
\* send-completion callback, whenever it arrives, leaves the sequence counter,
\* the attempt and send counts, the value returned and every other member and
\* local of Communication unchanged
C21_CallbackChangesNothing ==
    /\ [](commPc = "return" => (success <=> accepted >= 1))
    /\ [][warnings' # warnings =>
            UNCHANGED <<sequenceCounter, commPc, packet, retries, attempt, success,
                        lastResult, calls, sends, accepted, backoffs, diag, failedCalls>>]_vars

\* failure warnings have arrived, and the call in progress, entered after a
\* call that returned true, is waiting in a backoff
C21_Witness ==
    /\ warnings >= 2
    /\ commPc = "loop"
    /\ calls > 1
    /\ lastResult = TRUE
    /\ backoffs > 0

\* the value of a hexadecimal digit character
HexValue(c) == IF c < ASCII_A THEN c - ASCII_0 ELSE c - ASCII_A + 10

\* str is the colon-separated hexadecimal string of the 6 bytes m
IsMacStringOf(str, m) ==
    /\ Len(str) = 17
    /\ \A i \in 1..5 : str[3 * i] = ASCII_COLON
    /\ \A i \in 1..6 : HexValue(str[3 * i - 2]) * 16 + HexValue(str[3 * i - 1]) = m[i]

\* C22: the identifier of every broadcastGPSData call is the name stored in
\* the preferences when that name is not empty, and otherwise the 17-character
\* colon-separated string of the MAC address, and the name field of the packet
\* handed to the transport then holds all 17 characters of that string
C22_Identifier ==
    pktPc # "none" =>
        /\ Len(prefName) > 0 => args.boatName = prefName
        /\ Len(prefName) = 0 =>
              /\ IsMacStringOf(args.boatName, mac)
              /\ pktPc = "sent" =>
                    LET off == OffsetOf(FieldIndex("name"))
                    IN  DecodeName(SubSeq(wire.buf, off + 1,
                                          off + Fields[FieldIndex("name")].size))
                            = args.boatName

\* a packet was sent from a board without a stored name whose MAC address has
\* bytes above 0x9F
C22_Witness ==
    /\ pktPc = "sent"
    /\ Len(prefName) = 0
    /\ mac[1] >= 160
    /\ args.garbage # 0

\* C23: every record of every log file has a name field (at the top level of
\* the document or in its boat object) that identifies the boat
C23_RecordsNamed ==
    \A f \in DOMAIN sd :
        \A i \in 1..Len(sd[f].data) :
            "name" \in sd[f].data[i].keys \/ "boat.name" \in sd[f].data[i].keys

\* C24: when a broadcast tick ends, the LED is green iff the tick found a
\* valid fix and its broadcast was accepted, and yellow iff the tick found no
\* valid fix. A tick ends in the invalid branch, or when broadcastGPSData has
\* returned false, or after the record of an accepted broadcast was stored.
C24_LedAfterTick ==
    [][/\ (loopPc = "top" /\ ticks' = ticks + 1 /\ loopPc' = "top") =>
              (led' = "yellow" /\ led' # "green")
       /\ (loopPc = "sending" /\ loopPc' = "top") =>
              (led' # "green" /\ led' # "yellow")
       /\ (loopPc = "store" /\ loopPc' = "top") =>
              (led' = "green" /\ led' # "yellow")]_vars

\* C25: a call makes no send attempt after its first accepted one, so it has
\* at most one accepted attempt; as every call sends under its own sequence
\* number (the number of the call), no sequence number is accepted twice
C25_AcceptedOnce ==
    /\ [](accepted <= 1)
    /\ [](calls > 0 => packet.sequenceNumber = U32(calls))
    /\ [][/\ sends' > sends => accepted = 0
          /\ accepted' > accepted => (calls' = calls /\ sends' = sends + 1)
          /\ calls' # calls => (calls' = calls + 1 /\ accepted' = 0)]_vars

\* the second call was accepted on a retry that was not its last allowed attempt
C25_Witness ==
    /\ commPc = "return"
    /\ calls = 2
    /\ accepted = 1
    /\ sends > 1
    /\ sends <= retries

\* C26: when the retry loop of a call has ended, the call has waited in a
\* backoff once less than it has made attempts; it never waits more than
\* retries times; a wait follows only a rejected attempt that is not the last
\* one allowed; and the attempt index advances from 0 in steps of 1
C26_BackoffBetweenAttempts ==
    /\ [](commPc = "return" => backoffs = sends - 1)
    /\ [](backoffs <= retries)
    /\ [][/\ backoffs' > backoffs =>
                (accepted' = 0 /\ sends' = sends + 1 /\ sends' < 1 + retries)
          /\ (calls' = calls /\ attempt' # attempt) => attempt' = attempt + 1
          /\ calls' # calls => attempt' = 0]_vars

\* C30: every attempt of a call has printed exactly one line, a success line
\* if it was accepted and a failure line if it was rejected, and once all
\* 1 + retries attempts of the call have been rejected the next thing the call
\* does is print one exhaustion line that reports 1 + retries attempts; no
\* exhaustion line is printed otherwise
C30_AttemptsObservable ==
    /\ [](diag.sent = accepted /\ diag.failed = sends - accepted)
    /\ [](diag.exhausted = IF commPc # "loop" /\ calls > 0 /\ accepted = 0 THEN 1 ELSE 0)
    /\ [](diag.exhausted = 1 => diag.afterNo = 1 + retries)
    /\ [][(commPc = "loop" /\ accepted = 0 /\ sends = 1 + retries) =>
              (sends' = sends /\ diag'.exhausted = 1 /\ diag'.afterNo = 1 + retries)]_vars

\* the step is a writeGPSData call that left the file that was open at its entry
\* (closed it, or opened a file)
Rotated ==
    /\ fileCreated
    /\ logFile # NoFile
    /\ Len(created') > Len(created) \/ logFile' = NoFile

\* C27: a writeGPSData call rotates iff, at its entry, currentFileSize >=
\* MAX_FILE_SIZE or recordCount >= MAX_RECORDS_PER_FILE; and a call that
\* rotates leaves the old file closed with the records it had, opens a new
\* file, another one than the old, under a name built from the stamp of the
\* fix of the call, and appends the record of the call to the new file only
C27_RotationAtEntry ==
    [][\A d \in StorageFixes, openOk, writeOk \in BOOLEAN :
          writeGPSData(d, writeCalls + 1, openOk, writeOk) =>
              /\ Rotated <=> needsRotation(StorageState)
              /\ Rotated =>
                    /\ logFile' # NoFile
                    /\ logFile' # logFile
                    /\ logFile'[1] = d.stamp
                    /\ logFile' = created'[Len(created')]
                    /\ Len(sd'[logFile'].data) = 1
                    /\ sd'[logFile'].data[1].seq = writeCalls + 1
                    /\ sd'[logFile].data = sd[logFile].data
                    /\ sd'[logFile].synced = Len(sd[logFile].data)]_vars

\* the records a are the first records of b
IsPrefix(a, b) == Len(a) <= Len(b) /\ SubSeq(b, 1, Len(a)) = a

\* C28: every log file is created once, then appended to, then closed: the
\* only open file is the one created last, no name is created twice, a file
\* stays on the medium and keeps the records written to it, and a file that
\* is not the open one is never changed or opened again
C28_FileLifecycle ==
    /\ [](logFile # NoFile => (created # <<>> /\ logFile = created[Len(created)]))
    /\ [](\A i, j \in DOMAIN created : i # j => created[i] # created[j])
    /\ [][\A f \in DOMAIN sd :
              /\ f \in DOMAIN sd'
              /\ IsPrefix(sd[f].data, sd'[f].data)
              /\ f # logFile => (sd'[f] = sd[f] /\ logFile' # f)]_vars

\* C29: the Fix changes only in a step of GPS::update(), which is no step of
\* broadcastGPSData, writeGPSData or logGPSData; the snapshot getData()
\* returned changes only when loop() takes the next one, not when update()
\* runs again; and while the snapshot is being broadcast, logged and stored
\* every step leaves it as it was taken
C29_OnlyUpdateMutates ==
    [][/\ currentData' # currentData =>
              (updates' = "refreshed" /\ UNCHANGED <<commVars, stVars>>)
       /\ loopData' # loopData =>
              (loopPc = "top" /\ loopData' = currentData')
       /\ (commVars' # commVars \/ stVars' # stVars) =>
              UNCHANGED <<currentData, loopData>>
       /\ loopPc \in {"broadcast", "sending", "store"} => loopData' = loopData]_vars

\* the record of an accepted broadcast is about to be stored, and the Fix has
\* moved on since the snapshot was taken
C29_Witness ==
    /\ loopPc = "store"
    /\ loopData.valid
    /\ currentData # loopData
    /\ sends > 1

\* C31: a writeGPSData call with the first valid fix whose SD.open fails
\* leaves fileCreated false, the counters at 0, isAvailable() and the file
\* name reported as they were, no file open and the medium untouched; and
\* after such a failure the next call with a valid fix, when the medium
\* accepts the open and the write, creates the file and persists its record
C31_FailedCreateIsDropped ==
    [][\A data \in StorageFixes :
          /\ \A writeOk \in BOOLEAN :
                (/\ sdAvailable
                 /\ ~fileCreated
                 /\ data.valid
                 /\ writeGPSData(data, writeCalls + 1, FALSE, writeOk)) =>
                    /\ ~fileCreated'
                    /\ recordCount' = 0 /\ recordCount = 0
                    /\ currentFileSize' = currentFileSize
                    /\ isAvailable' = isAvailable
                    /\ getCurrentFileName' = getCurrentFileName
                    /\ logFile' = NoFile /\ logFile = NoFile
                    /\ sd' = sd
                    /\ created' = created
          /\ (/\ sdAvailable
              /\ ~fileCreated
              /\ ioFailed
              /\ data.valid
              /\ writeGPSData(data, writeCalls + 1, TRUE, TRUE)) =>
                 /\ fileCreated'
                 /\ logFile' # NoFile
                 /\ created' = <<logFile'>>
                 /\ Len(sd'[logFile'].data) = 1
                 /\ sd'[logFile'].data[1].seq = writeCalls'
                 /\ sd'[logFile'].synced = 1]_vars

\* the creation failed on the first valid fix and the second valid fix was logged
C31_Witness ==
    /\ ioFailed
    /\ fileCreated
    /\ writeCalls = 2
    /\ validCalls = 2
    /\ logFile # NoFile
    /\ Len(sd[logFile].data) = 1
    /\ sd[logFile].data[1].seq = 2

\* C32: a writeGPSData call that has created a file, on the first valid fix
\* or in a rotation, returns with at least one record in that file
C32_NoEmptyFile ==
    [][\A data \in StorageFixes, openOk, writeOk \in BOOLEAN :
          (/\ Len(created') > Len(created)
           /\ writeGPSData(data, writeCalls + 1, openOk, writeOk)) =>
              Len(sd'[created'[Len(created')]].data) >= 1]_vars

\* C32, amended: a writeGPSData call that has created a file (its open has
\* then succeeded, under a name built from the stamp of its fix) and whose
\* write succeeds returns with its record in that file, flushed to the medium
C32_NoEmptyFileWhenWritten ==
    [][\A data \in StorageFixes :
          (/\ Len(created') > Len(created)
           /\ data.stamp = created'[Len(created')][1]
           /\ writeGPSData(data, writeCalls + 1, TRUE, TRUE)) =>
              /\ logFile' = created'[Len(created')]
              /\ Len(sd'[logFile'].data) = 1
              /\ sd'[logFile'].data[1].seq = writeCalls'
              /\ sd'[logFile'].synced = 1]_vars

\* a rotation has created the second file of the session, which holds one record
C32_Witness ==
    /\ Len(created) = 2
    /\ logFile = created[2]
    /\ created[1] # created[2]
    /\ Len(sd[logFile].data) = 1

\* C33: after every update() that has refreshed the Fix, the timestamp of the
\* Fix is the epoch conversion of the year, month, day, hour, minute and
\* second of the Fix, whether or not the decoder holds its date and time valid
C33_TimestampMatchesCalendar ==
    updates = "refreshed" =>
        fixTime.timestamp = Mktime(fixTime.year, fixTime.month, fixTime.day,
                                   fixTime.hour, fixTime.minute, fixTime.second)

\* C34: once setup() is over with Communication::begin() having returned
\* false (esp_now_init or the broadcast peer failed), the program is halted
\* in setup and stays there: loop() has made no tick, no broadcastGPSData call
\* was made, no packet handed to the radio, the sequence counter is 0 and
\* nothing was written to the medium.
C34_HaltsWhenCommFails ==
    /\ [](/\ (loopPc # "setup" /\ espNow # "ready") =>
                /\ loopPc = "halt"
                /\ ticks = 0 /\ calls = 0 /\ sends = 0 /\ accepted = 0
                /\ getSequenceNumber = U32(0)
                /\ writeCalls = 0 /\ created = <<>> /\ logFile = NoFile
                /\ mount = "none"
           /\ (loopPc = "halt" => espNow # "ready"))
    /\ [][loopPc = "halt" => loopPc' = "halt"]_vars

C34_Witness ==
    loopPc = "halt" /\ espNow = "initialised"

\* a < b as 32-bit unsigned integers
U32Less(a, b) == a.hi < b.hi \/ (a.hi = b.hi /\ a.lo < b.lo)

\* C35: the broadcastGPSData call that follows the one that issued
\* 4,294,967,295 issues 0, and a call issues a number that is not greater than
\* the number of the packet before it only in that case; otherwise it
\* issues the next number.
C35_WrapsAtMax ==
    [][calls' = calls + 1 =>
          /\ packet'.sequenceNumber = sequenceCounter'
          /\ packet.sequenceNumber = U32_MAX => packet'.sequenceNumber = U32(0)
          /\ ~U32Less(packet.sequenceNumber, packet'.sequenceNumber) =>
                 (packet.sequenceNumber = U32_MAX /\ packet'.sequenceNumber = U32(0))
          /\ packet.sequenceNumber # U32_MAX =>
                 /\ U32Less(packet.sequenceNumber, packet'.sequenceNumber)
                 /\ (packet'.sequenceNumber.hi - packet.sequenceNumber.hi) * WORD_MOD
                       + (packet'.sequenceNumber.lo - packet.sequenceNumber.lo) = 1]_vars

C35_Witness ==
    /\ calls = 3
    /\ packet.sequenceNumber = U32(0)
    /\ getSequenceNumber = U32(0)

\* C36: every file of the session, those created by a rotation included, has
\* in its name the 12 hexadecimal digits of the MAC address the first file
\* has, which are those of the board's address; the string kept in
\* macAddressStr decodes to the address it was made from, and so does the
\* string of every 6-byte address whose bytes are all b, for every byte b
\* (a fact about the two conversions alone, evaluated in the states before
\* begin()).
C36_MacRoundTrip ==
    /\ Len(nameMacs) = Len(created)
    /\ \A i \in 1..Len(nameMacs) :
          /\ nameMacs[i] = nameMacs[1]
          /\ Len(nameMacs[i]) = 2 * MAC_LEN
          /\ \A k \in 1..MAC_LEN :
                HexValue(nameMacs[i][2 * k - 1]) * 16 + HexValue(nameMacs[i][2 * k]) = mac[k]
    /\ fileCreated => DecodeMac(macAddressStr) = mac
    /\ mount = "none" =>
          \A b \in 0..(UINT8_MOD - 1) :
              DecodeMac(EncodeMac([k \in 1..MAC_LEN |-> b])) = [k \in 1..MAC_LEN |-> b]

C36_Witness ==
    /\ Len(created) = 3
    /\ nameMacs[3] = EncodeMac(<<10, 160, 9, 144, 15, 240>>)
    /\ mac = <<10, 160, 9, 144, 15, 240>>

\* C37: in every state of the Storage object recordCount is the number of
\* records in the open file (0 when no file is open) and is at most
\* MAX_RECORDS_PER_FILE, failed writes and failed rotations included.
C37_RecordCountExact ==
    /\ recordCount = (IF logFile = NoFile THEN 0 ELSE Len(sd[logFile].data))
    /\ recordCount <= MAX_RECORDS_PER_FILE

\* the records in the files this session has opened
RECURSIVE RecordsIn(_, _)
RecordsIn(files, names) ==
    IF names = {} THEN 0
    ELSE LET f == CHOOSE x \in names : TRUE
         IN  Len(files[f].data) + RecordsIn(files, names \ {f})

\* a + n as uint32_t, for a number n >= 0 of any size the model holds
RECURSIVE U32Plus(_, _)
U32Plus(a, n) == IF n < WORD_MOD THEN U32Add(a, n) ELSE U32Plus(U32Add(a, WORD_MOD - 1), n - (WORD_MOD - 1))

\* a <= b as 32-bit unsigned integers
U32LessEq(a, b) == a.hi < b.hi \/ (a.hi = b.hi /\ a.lo <= b.lo)

\* getSequenceNumber() - validPacketCount (uint32_t arithmetic) is the number
\* of broadcastGPSData calls that have returned false; while a call is in
\* progress or its result not yet counted, it is that number or one more
DifferenceIsFailedCalls ==
    /\ loopPc \in {"setup", "top", "broadcast", "store", "halt"} =>
          getSequenceNumber = U32Plus(failedCalls, validPacketCount)
    /\ loopPc = "sending" =>
          getSequenceNumber =
              U32Plus(failedCalls,
                      validPacketCount + (IF commPc = "idle" /\ lastResult = FALSE THEN 0 ELSE 1))

C39_TickSpacing ==
    /\ [](calls <= ticks)
    /\ [][ticks' # ticks =>
            /\ ticks' = ticks + 1
            /\ loopPc = "top"
            /\ lastBroadcast' = millis'
            /\ U32AtLeast(U32Sub(lastBroadcast', lastBroadcast), BROADCAST_INTERVAL)
            /\ calls' = calls]_vars
    /\ [][calls' # calls => (calls' = calls + 1 /\ calls < ticks /\ ticks' = ticks)]_vars
    /\ [][(loopPc = "top" /\ millis' # millis) =>
            IF U32AtLeast(U32Sub(millis', lastBroadcast), BROADCAST_INTERVAL)
            THEN ticks' = ticks + 1
            ELSE ticks' = ticks /\ lastBroadcast' = lastBroadcast]_vars

C39_Witness ==
    /\ ticks >= 1
    /\ lastBroadcast = U32(BROADCAST_INTERVAL - 600)
    /\ millis = lastBroadcast

====
